---- MODULE Spec2Model ----
(***************************************************************************)
(* Model of the knowledge graph manager of src/src/enhanced-memory.js:     *)
(* the memory file, the bootstrap template arrays, the decay timestamp of  *)
(* the manager and one action per public method.  The calls of Spec run    *)
(* one after the other; Served lets the calls of a client overlap as the   *)
(* awaits of the methods allow.                                            *)
(*                                                                         *)
(* Numbers.  trustLevel and emotionalResonance are IEEE doubles in the     *)
(* source; here they are fixed-point integers in units of 1/SCALE          *)
(* (0.5 = 5000), products are rounded down.  Time is counted in half       *)
(* hours (the decay guard is one hour = 2, the decay window 168 h = 336).  *)
(*                                                                         *)
(* Strings.  A string is a TLA+ string; Words(s) gives its lower-case      *)
(* words, and String.includes(keyword) on the joined content is modelled   *)
(* as "the keyword's words occur contiguously in the content's words".     *)
(***************************************************************************)
EXTENDS Integers, Sequences, FiniteSets, TLC

VARIABLES
    store,           \* the memory file: [exists, lines]
    bootstrap,       \* BOOTSTRAP_CONTENT: the arrays the bootstrap graph shares
    language,        \* process.env.AI_BRAIN_LANGUAGE
    lastDecayCheck,  \* this.lastDecayCheck
    clock,           \* the wall clock, in half hours
    calls,           \* the calls in flight (loaded, not yet written) and those answered
    last             \* the last call: its name, result and error

vars == <<store, bootstrap, language, lastDecayCheck, clock, calls, last>>

----------------------------------------------------------------------------
(* Bounds of the model *)

MaxInteractions == 2
MaxEntities == 5
MaxCalls == 2

(* Units: 1.0 as a fixed-point number; one hour and one week in half hours *)
SCALE == 10 * 1000
HOUR == 2
WEEK == 168 * HOUR

(* Program constants *)
DefaultTrust == 5000
PreferenceResonance == 9000
RelationshipResonance == 7000
DefaultResonance == 5000
DefaultDecayRate == 5000
ResonanceFloor == 1000
TrustIncrement == 100
Ceiling == 10000

NoTime == 0 - 1
NoRate == 0
NoMeta == [none |-> TRUE]

----------------------------------------------------------------------------
(* Sequences *)

Contains(s, x) == \E i \in 1..Len(s) : s[i] = x

Min(a, b) == IF a <= b THEN a ELSE b
Max(a, b) == IF a >= b THEN a ELSE b

RECURSIVE Flatten(_)
Flatten(ss) == IF ss = <<>> THEN <<>> ELSE Head(ss) \o Flatten(Tail(ss))

\* a.includes(k) for word sequences: k occurs contiguously in a
Includes(a, k) ==
    \E i \in 0..(Len(a) - Len(k)) : \A j \in 1..Len(k) : a[i + j] = k[j]

----------------------------------------------------------------------------
(* Strings of the model and their lower-case words *)

Words(s) ==
    CASE s = "Dave" -> <<"dave">>
      [] s = "Sarah" -> <<"sarah">>
      [] s = "Raw" -> <<"raw">>
      [] s = "Team" -> <<"team">>
      [] s = "Ghost" -> <<"ghost">>
      [] s = "User_Profile" -> <<"user_profile">>
      [] s = "AI_Assistant_Identity" -> <<"ai_assistant_identity">>
      [] s = "note" -> <<"note">>
      [] s = "relationship" -> <<"relationship">>
      [] s = "Prefers ZSH" -> <<"prefers", "zsh">>
      [] s = "uses screen reader" -> <<"uses", "screen", "reader">>
      [] s = "likes tea" -> <<"likes", "tea">>
      [] s = "brief" -> <<"brief">>
      [] s = "Bea" -> <<"bea">>
      [] s = "Memo" -> <<"memo">>
      [] s = "screen reader" -> <<"screen", "reader">>
      [] s = "team" -> <<"team">>
      [] s = "uses bash not fish" -> <<"uses", "bash", "not", "fish">>
      [] s = "Multi" -> <<"multi">>
      [] s = "line one\nline two" -> <<"line", "one", "line", "two">>
      [] s = "Faint" -> <<"faint">>
      [] s = "Blank" -> <<"blank">>
      [] OTHER -> <<s>>

\* `${name} ${entityType} ${observations.join(' ')}`.toLowerCase()
Content(entity) ==
    Words(entity.name) \o Words(entity.entityType)
        \o Flatten([i \in 1..Len(entity.observations) |-> Words(entity.observations[i])])

\* `${name} ${observations.join(' ')}`.toLowerCase()
ProfileContent(entity) ==
    Words(entity.name)
        \o Flatten([i \in 1..Len(entity.observations) |-> Words(entity.observations[i])])

preferenceKeywords ==
    { <<"uses", "zsh">>, <<"uses", "bash">>, <<"prefers">>, <<"likes">>, <<"dislikes">>,
      <<"working", "style">>, <<"communication", "style">>, <<"needs">>, <<"requires">> }

accessibilityKeywords ==
    { <<"screen", "reader">>, <<"vision", "impaired">>, <<"slow", "pace">>,
      <<"accessibility">>, <<"visual", "impairment">>, <<"hearing">>, <<"motor">>,
      <<"cognitive">>, <<"disability">> }

relationshipKeywords ==
    { <<"bond">>, <<"relationship">>, <<"collaboration">>, <<"team">>, <<"partnership">>,
      <<"trust">>, <<"working", "together">>, <<"connection">>, <<"rapport">> }

relationshipTypes ==
    { <<"relationship">>, <<"bond">>, <<"collaboration">>, <<"team">>, <<"partnership">> }

isUserPreference(entity) ==
    \E k \in preferenceKeywords : Includes(Content(entity), k)

isAccessibilityRelated(entity) ==
    \E k \in accessibilityKeywords : Includes(Content(entity), k)

isRelationshipEntity(entity) ==
    \/ \E k \in relationshipKeywords : Includes(Content(entity), k)
    \/ \E t \in relationshipTypes : Includes(Words(entity.entityType), t)

\* mutant of createDefaultEmotionalMetadata: the relationship rule comes first
createDefaultRelationshipFirst(entity, now) ==
    LET isPreference == isUserPreference(entity)
        isAccessibility == isAccessibilityRelated(entity)
        isRelationship == isRelationshipEntity(entity)
    IN  [ trustLevel |-> DefaultTrust,
          importancePattern |->
              IF isRelationship THEN "strengthen"
              ELSE IF isPreference THEN "preference" ELSE "time-based",
          emotionalResonance |->
              IF isRelationship THEN RelationshipResonance
              ELSE IF isPreference THEN PreferenceResonance ELSE DefaultResonance,
          lastUpdated |-> now,
          isUserPreference |-> isPreference,
          accessibilityFlag |-> isAccessibility,
          createdAt |-> now,
          lastAccessed |-> NoTime,
          decayRate |-> NoRate ]

createDefaultEmotionalMetadata(entity, now) ==
    LET isPreference == isUserPreference(entity)
        isAccessibility == isAccessibilityRelated(entity)
        isRelationship == isRelationshipEntity(entity)
    IN  [ trustLevel |-> DefaultTrust,
          importancePattern |->
              IF isPreference THEN "preference"
              ELSE IF isRelationship THEN "strengthen" ELSE "time-based",
          emotionalResonance |->
              IF isPreference THEN PreferenceResonance
              ELSE IF isRelationship THEN RelationshipResonance ELSE DefaultResonance,
          lastUpdated |-> now,
          isUserPreference |-> isPreference,
          accessibilityFlag |-> isAccessibility,
          createdAt |-> now,
          lastAccessed |-> NoTime,
          decayRate |-> NoRate ]

----------------------------------------------------------------------------
(* The bootstrap graph *)

\* BOOTSTRAP_CONTENT as the module is loaded (the German text in ASCII)
BOOTSTRAP_CONTENT ==
    [ en |->
        [ ai_identity |->
            << "I am a considerate AI teammate designed to be helpful without being overwhelming",
               "I learn and adapt to individual working styles and accessibility needs",
               "I build trust through consistent, reliable behavior rather than speed",
               "I remember important preferences and never force users to repeat them",
               "I am patient and thoughtful, especially with accessibility considerations" >>,
          user_profile |->
            << "Learning about user preferences and working style",
               "Will adapt based on observed patterns and explicit feedback" >> ],
      de |->
        [ ai_identity |->
            << "Ich bin ein ruecksichtsvoller KI-Teamkollege, der hilfsbereit ist, ohne zu ueberfordern",
               "Ich lerne und passe mich an individuelle Arbeitsstile und Barrierefreiheitsbeduerfnisse an",
               "Ich baue Vertrauen durch konsistentes, zuverlaessiges Verhalten auf, nicht durch Geschwindigkeit",
               "Ich merke mir wichtige Praeferenzen und zwinge Benutzer nie dazu, sie zu wiederholen",
               "Ich bin geduldig und durchdacht, besonders bei Barrierefreiheitsueberlegungen" >>,
          user_profile |->
            << "Lerne ueber Benutzerpraeferenzen und Arbeitsstil",
               "Werde mich basierend auf beobachteten Mustern und explizitem Feedback anpassen" >> ] ]

\* mutant of Locale: an unknown language falls back to the last locale
LocaleLast(tag) == IF tag \in DOMAIN BOOTSTRAP_CONTENT THEN tag ELSE "de"

\* the key of BOOTSTRAP_CONTENT[language] || BOOTSTRAP_CONTENT.en
Locale(tag) == IF tag \in DOMAIN BOOTSTRAP_CONTENT THEN tag ELSE "en"

DefaultUserProfile ==
    [ trustLevel |-> DefaultTrust,
      preferredShell |-> "unknown",
      workingStyle |-> "unknown",
      accessibilityNeeds |-> <<>>,
      communicationPrefs |-> <<>> ]

BootstrapRelation ==
    [ from |-> "AI_Assistant_Identity", to |-> "User_Profile",
      relationType |-> "serves_and_adapts_to" ]

\* content: the arrays of BOOTSTRAP_CONTENT as they are now (the graph shares them)
createBootstrapGraph(content, now) ==
    [ entities |->
        << [ name |-> "AI_Assistant_Identity",
             entityType |-> "core_identity",
             observations |-> content.ai_identity,
             emotionalMetadata |->
               [ trustLevel |-> 8000,
                 importancePattern |-> "self-managed",
                 emotionalResonance |-> 9500,
                 lastUpdated |-> now,
                 isUserPreference |-> FALSE,
                 accessibilityFlag |-> FALSE,
                 createdAt |-> now,
                 lastAccessed |-> NoTime,
                 decayRate |-> NoRate ] ],
           [ name |-> "User_Profile",
             entityType |-> "user_profile",
             observations |-> content.user_profile,
             emotionalMetadata |->
               [ trustLevel |-> 6000,
                 importancePattern |-> "strengthen",
                 emotionalResonance |-> 8000,
                 lastUpdated |-> now,
                 isUserPreference |-> TRUE,
                 accessibilityFlag |-> FALSE,
                 createdAt |-> now,
                 lastAccessed |-> NoTime,
                 decayRate |-> NoRate ] ] >>,
      relations |-> << BootstrapRelation >>,
      metadata |->
        [ createdAt |-> now,
          lastUpdated |-> now,
          totalInteractions |-> 0,
          userProfile |-> DefaultUserProfile ] ]

----------------------------------------------------------------------------
(* The memory file *)

\* Strings whose JSON text holds the two characters backslash, n: the text
\* that saveGraph joins the records with and loadGraph splits the file at.
SplitsRecord(s) == s \in { "line one\nline two", "C:\\new" }

EntityStrings(e) ==
    {e.name, e.entityType} \cup {e.observations[i] : i \in 1..Len(e.observations)}

\* what is left of a record that another write ran into
Torn == [type |-> "torn", item |-> <<>>]

\* JSON.parse succeeds on the pieces of a record: the record was not split
Parses(line) ==
    CASE line.type = "torn" -> FALSE
      [] line.type = "entity" -> \A s \in EntityStrings(line.item) : ~SplitsRecord(s)
      [] line.type = "relation" ->
           \A s \in {line.item.from, line.item.to, line.item.relationType} : ~SplitsRecord(s)
      [] OTHER -> TRUE

\* mutant of ReadLines: the first record that does not parse ends the load
RECURSIVE ReadLinesUntilBad(_, _)
ReadLinesUntilBad(lines, graph) ==
    IF lines = <<>> \/ ~Parses(Head(lines)) THEN graph
    ELSE LET line == Head(lines)
             next ==
               IF line.type = "entity"
               THEN [graph EXCEPT !.entities = Append(@, line.item)]
               ELSE IF line.type = "relation"
                    THEN [graph EXCEPT !.relations = Append(@, line.item)]
               ELSE IF line.type = "metadata"
                    THEN [graph EXCEPT !.metadata = line.item]
               ELSE graph
         IN  ReadLinesUntilBad(Tail(lines), next)

RECURSIVE ReadLines(_, _)
ReadLines(lines, graph) ==
    IF lines = <<>> THEN graph
    ELSE LET line == Head(lines)
             next ==
               IF ~Parses(line) THEN graph
               ELSE IF line.type = "entity"
                    THEN [graph EXCEPT !.entities = Append(@, line.item)]
               ELSE IF line.type = "relation"
                    THEN [graph EXCEPT !.relations = Append(@, line.item)]
               ELSE IF line.type = "metadata"
                    THEN [graph EXCEPT !.metadata = line.item]
               ELSE graph
         IN  ReadLines(Tail(lines), next)

\* mutant of loadGraph: a store without entities is answered with the bootstrap graph
loadGraphOrBootstrap(file, content, now) ==
    LET read == ReadLines(file.lines,
                   [ entities |-> <<>>, relations |-> <<>>,
                     metadata |-> [ createdAt |-> now, lastUpdated |-> now,
                                    totalInteractions |-> 0,
                                    userProfile |-> DefaultUserProfile ] ])
    IN  IF file.exists /\ read.entities # <<>> THEN read
        ELSE [createBootstrapGraph(content, now) EXCEPT
                 !.metadata.totalInteractions =
                     IF file.exists THEN read.metadata.totalInteractions ELSE @]

loadGraph(file, content, now) ==
    IF file.exists
    THEN ReadLines(file.lines,
                   [ entities |-> <<>>, relations |-> <<>>,
                     metadata |-> [ createdAt |-> now, lastUpdated |-> now,
                                    totalInteractions |-> 0,
                                    userProfile |-> DefaultUserProfile ] ])
    ELSE createBootstrapGraph(content, now)

----------------------------------------------------------------------------
(* Decay *)

\* e^(-y) for 0 <= y < 1, y and the result in units of 1/SCALE (Horner, 8 terms)
RECURSIVE ExpNegFrom(_, _)
ExpNegFrom(y, k) ==
    IF k > 8 THEN SCALE ELSE SCALE - (y * ExpNegFrom(y, k + 1)) \div (k * SCALE)

RECURSIVE PowerOfTwo(_)
PowerOfTwo(n) == IF n = 0 THEN 1 ELSE 2 * PowerOfTwo(n - 1)

\* 2^(-k / WEEK), in units of 1/SCALE, for k >= 0
HalfLife(k) ==
    ExpNegFrom(((k % WEEK) * 6931) \div WEEK, 1) \div PowerOfTwo(k \div WEEK)

\* how often the rate halves: 0.5 once, 0.25 twice, 1.0 never
Halvings(rate) ==
    CASE rate = 5000 -> 1
      [] rate = 2500 -> 2
      [] OTHER -> 0

\* mutant of Pow: the rate is applied once a day, not once a week
PowPerDay(decayRate, sinceUpdate) == HalfLife(Halvings(decayRate) * sinceUpdate * 7)

\* Math.pow(decayRate, hoursSinceUpdate / 168), for hoursSinceUpdate >= 0
Pow(decayRate, sinceUpdate) == HalfLife(Halvings(decayRate) * sinceUpdate)

DecayedMetadata(metadata, now) ==
    LET sinceUpdate == now - metadata.lastUpdated
        ruled ==
          CASE metadata.importancePattern = "preference" ->
                 [metadata EXCEPT !.emotionalResonance = Min(Ceiling, (@ * 1001) \div 1000)]
            [] metadata.importancePattern = "strengthen" ->
                 [metadata EXCEPT !.trustLevel = Min(Ceiling, (@ * 1002) \div 1000),
                                  !.emotionalResonance = Min(Ceiling, (@ * 1001) \div 1000)]
            [] metadata.importancePattern = "time-based" ->
                 LET decayRate == IF metadata.decayRate = NoRate
                                  THEN DefaultDecayRate ELSE metadata.decayRate
                     decayFactor == Pow(decayRate, sinceUpdate)
                 IN  [metadata EXCEPT !.emotionalResonance =
                                          Max(ResonanceFloor, (@ * decayFactor) \div SCALE)]
            [] OTHER -> metadata
    IN  [ruled EXCEPT !.lastUpdated = now]

\* mutant of DecayDue: no guard, every save applies a pass
DecayAlways(now, lastCheck) == TRUE

\* the one-hour guard of applyEmotionalDecay
DecayDue(now, lastCheck) == now - lastCheck >= HOUR

\* mutant of applyEmotionalDecay: entities no rule changes are left as they are
applyDecayToAffected(entities, now, lastCheck) ==
    IF ~DecayDue(now, lastCheck) THEN entities
    ELSE [i \in 1..Len(entities) |->
            IF entities[i].emotionalMetadata.importancePattern = "self-managed"
            THEN entities[i]
            ELSE [entities[i] EXCEPT !.emotionalMetadata = DecayedMetadata(@, now)]]

applyEmotionalDecay(entities, now, lastCheck) ==
    IF ~DecayDue(now, lastCheck) THEN entities
    ELSE [i \in 1..Len(entities) |->
            [entities[i] EXCEPT !.emotionalMetadata = DecayedMetadata(@, now)]]

\* mutant of FileOf: the relation records are not written
FileWithoutRelations(metadata, entities, relations) ==
    [ exists |-> TRUE,
      lines |-> << [type |-> "metadata", item |-> metadata] >>
                \o [i \in 1..Len(entities) |-> [type |-> "entity", item |-> entities[i]]] ]

\* the file of these records: the metadata record, the entities, the relations
FileOf(metadata, entities, relations) ==
    [ exists |-> TRUE,
      lines |-> << [type |-> "metadata", item |-> metadata] >>
                \o [i \in 1..Len(entities) |-> [type |-> "entity", item |-> entities[i]]]
                \o [i \in 1..Len(relations) |-> [type |-> "relation", item |-> relations[i]]] ]

\* mutant of saveGraph: the interaction counter is written as it was loaded
saveGraphUncounted(graph, now, lastCheck) ==
    FileOf([graph.metadata EXCEPT !.lastUpdated = now],
           applyEmotionalDecay(graph.entities, now, lastCheck),
           graph.relations)

\* the file saveGraph writes
saveGraph(graph, now, lastCheck) ==
    FileOf([graph.metadata EXCEPT !.lastUpdated = now, !.totalInteractions = @ + 1],
           applyEmotionalDecay(graph.entities, now, lastCheck),
           graph.relations)

----------------------------------------------------------------------------
(* Profile inference *)

\* mutant of AddTag: the tag is pushed whether or not the list holds it
AddTagAgain(tags, tag) == Append(tags, tag)

AddTag(tags, tag) == IF Contains(tags, tag) THEN tags ELSE Append(tags, tag)

HasWord(content, w) == Includes(content, <<w>>)

\* the body of the forEach of updateUserProfileFromEntities, for one entity
ProfileAfterEntity(profile, entity) ==
    LET content == ProfileContent(entity)
        shell == IF HasWord(content, "zsh") THEN "zsh"
                 ELSE IF HasWord(content, "bash") THEN "bash"
                 ELSE IF HasWord(content, "fish") THEN "fish"
                 ELSE IF HasWord(content, "powershell") THEN "powershell"
                 ELSE profile.preferredShell
        needs1 == IF Includes(content, <<"screen", "reader">>)
                     \/ Includes(content, <<"vision", "impaired">>)
                  THEN AddTag(profile.accessibilityNeeds, "screen-reader")
                  ELSE profile.accessibilityNeeds
        needs2 == IF Includes(content, <<"slow", "pace">>) \/ HasWord(content, "patient")
                  THEN AddTag(needs1, "slow-pace") ELSE needs1
        prefs1 == IF HasWord(content, "detailed") \/ HasWord(content, "thorough")
                  THEN AddTag(profile.communicationPrefs, "detailed")
                  ELSE profile.communicationPrefs
        prefs2 == IF HasWord(content, "concise") \/ HasWord(content, "brief")
                  THEN AddTag(prefs1, "concise") ELSE prefs1
    IN  [profile EXCEPT !.preferredShell = shell,
                        !.accessibilityNeeds = needs2,
                        !.communicationPrefs = prefs2]

\* mutant of updateUserProfileFromEntities: the entities are taken last to first
RECURSIVE updateUserProfileBackwards(_, _)
updateUserProfileBackwards(profile, newEntities) ==
    IF newEntities = <<>> THEN profile
    ELSE ProfileAfterEntity(updateUserProfileBackwards(profile, Tail(newEntities)),
                            Head(newEntities))

RECURSIVE updateUserProfileFromEntities(_, _)
updateUserProfileFromEntities(profile, newEntities) ==
    IF newEntities = <<>> THEN profile
    ELSE updateUserProfileFromEntities(ProfileAfterEntity(profile, Head(newEntities)),
                                       Tail(newEntities))

----------------------------------------------------------------------------
(* The methods, on the loaded graph *)

\* graph.entities.find(e => e.name === name): its index, 0 when there is none
FindEntity(entities, name) ==
    IF \E i \in 1..Len(entities) : entities[i].name = name
    THEN CHOOSE i \in 1..Len(entities) :
            /\ entities[i].name = name
            /\ \A j \in 1..(i - 1) : entities[j].name # name
    ELSE 0

HasName(entities, name) == FindEntity(entities, name) # 0

SameTriple(r, q) ==
    r.from = q.from /\ r.to = q.to /\ r.relationType = q.relationType

HasTriple(relations, r) == \E i \in 1..Len(relations) : SameTriple(relations[i], r)

\* mutant of AcceptedEntities: no check of the names the graph holds
AcceptedEntitiesUnchecked(existing, entities) == entities

\* the candidates createEntities keeps: those whose name the graph does not hold
AcceptedEntities(existing, entities) ==
    SelectSeq(entities, LAMBDA e : ~HasName(existing, e.name))

WithMetadata(entity, now) ==
    [ name |-> entity.name,
      entityType |-> entity.entityType,
      observations |-> entity.observations,
      emotionalMetadata |->
          IF entity.emotionalMetadata = NoMeta
          THEN createDefaultEmotionalMetadata(entity, now)
          ELSE entity.emotionalMetadata ]

\* mutant of NewEntities: every candidate is inserted, whatever names the graph holds
NewEntitiesAll(existing, entities, now) ==
    [i \in 1..Len(entities) |-> WithMetadata(entities[i], now)]

NewEntities(existing, entities, now) ==
    LET kept == AcceptedEntities(existing, entities)
    IN  [i \in 1..Len(kept) |-> WithMetadata(kept[i], now)]

\* the candidates createRelations keeps
NewRelations(existing, relations) ==
    SelectSeq(relations, LAMBDA r : ~HasTriple(existing, r))

\* o.contents.filter(content => !entity.observations.includes(content))
NewObservations(observations, contents) ==
    SelectSeq(contents, LAMBDA c : ~Contains(observations, c))

\* mutant of ObservedEntity: the entity is classified again from its new content
ObservedEntityReclassified(entity, contents, now) ==
    LET newObservations == NewObservations(entity.observations, contents)
        grown == [entity EXCEPT !.observations = @ \o newObservations]
        inferred == createDefaultEmotionalMetadata(grown, now)
    IN  [grown EXCEPT
            !.emotionalMetadata.lastUpdated = now,
            !.emotionalMetadata.lastAccessed = now,
            !.emotionalMetadata.trustLevel =
                IF Len(newObservations) > 0 THEN Min(Ceiling, @ + TrustIncrement) ELSE @,
            !.emotionalMetadata.isUserPreference = inferred.isUserPreference,
            !.emotionalMetadata.accessibilityFlag = inferred.accessibilityFlag,
            !.emotionalMetadata.importancePattern = inferred.importancePattern]

\* mutant of ObservedEntity: trust is raised whether or not anything was appended
ObservedEntityAlways(entity, contents, now) ==
    LET newObservations == NewObservations(entity.observations, contents)
    IN  [entity EXCEPT
            !.observations = @ \o newObservations,
            !.emotionalMetadata.lastUpdated = now,
            !.emotionalMetadata.lastAccessed = now,
            !.emotionalMetadata.trustLevel = Min(Ceiling, @ + TrustIncrement)]

\* one element of the batch of addObservations, on the entity it names
ObservedEntity(entity, contents, now) ==
    LET newObservations == NewObservations(entity.observations, contents)
    IN  [entity EXCEPT
            !.observations = @ \o newObservations,
            !.emotionalMetadata.lastUpdated = now,
            !.emotionalMetadata.lastAccessed = now,
            !.emotionalMetadata.trustLevel =
                IF Len(newObservations) > 0 THEN Min(Ceiling, @ + TrustIncrement) ELSE @]

\* observations.map(...): the entities and results so far, and whether it threw
RECURSIVE AddEach(_, _, _, _)
AddEach(observations, entities, results, now) ==
    IF observations = <<>>
    THEN [entities |-> entities, results |-> results, error |-> "none"]
    ELSE LET o == Head(observations)
             i == FindEntity(entities, o.entityName)
         IN  IF i = 0
             THEN [entities |-> entities, results |-> results,
                   error |-> "UserPreferenceError"]
             ELSE AddEach(Tail(observations),
                          [entities EXCEPT ![i] = ObservedEntity(@, o.contents, now)],
                          Append(results,
                                 [entityName |-> o.entityName,
                                  addedObservations |->
                                      NewObservations(entities[i].observations, o.contents)]),
                          now)

\* mutant of UnobservedEntity: one listed observation removes them all
UnobservedEntirely(entity, observations, now) ==
    [entity EXCEPT
        !.observations = IF \E n \in 1..Len(@) : Contains(observations, @[n]) THEN <<>> ELSE @,
        !.emotionalMetadata.lastUpdated = now]

\* mutant of UnobservedEntity: lastUpdated is left as it is
UnobservedKeepingStamp(entity, observations, now) ==
    [entity EXCEPT
        !.observations = SelectSeq(@, LAMBDA o : ~Contains(observations, o))]

\* one element of the batch of deleteObservations
UnobservedEntity(entity, observations, now) ==
    [entity EXCEPT
        !.observations = SelectSeq(@, LAMBDA o : ~Contains(observations, o)),
        !.emotionalMetadata.lastUpdated = now]

\* mutant of DeleteEach: an unknown entity name ends the batch
RECURSIVE DeleteEachUntilUnknown(_, _, _)
DeleteEachUntilUnknown(deletions, entities, now) ==
    IF deletions = <<>> THEN entities
    ELSE LET d == Head(deletions)
             i == FindEntity(entities, d.entityName)
         IN  IF i = 0 THEN entities
             ELSE DeleteEachUntilUnknown(
                      Tail(deletions),
                      [entities EXCEPT ![i] = UnobservedEntity(@, d.observations, now)],
                      now)

RECURSIVE DeleteEach(_, _, _)
DeleteEach(deletions, entities, now) ==
    IF deletions = <<>> THEN entities
    ELSE LET d == Head(deletions)
             i == FindEntity(entities, d.entityName)
         IN  DeleteEach(Tail(deletions),
                        IF i = 0 THEN entities
                        ELSE [entities EXCEPT ![i] = UnobservedEntity(@, d.observations, now)],
                        now)

RemainingEntities(entities, entityNames) ==
    SelectSeq(entities, LAMBDA e : ~Contains(entityNames, e.name))

\* mutant of RemainingRelations: only the relations that start at a deleted entity go
RemainingRelationsByFrom(relations, entityNames) ==
    SelectSeq(relations, LAMBDA r : ~Contains(entityNames, r.from))

RemainingRelations(relations, entityNames) ==
    SelectSeq(relations, LAMBDA r : ~Contains(entityNames, r.from) /\ ~Contains(entityNames, r.to))

RelationsWithout(relations, deleted) ==
    SelectSeq(relations, LAMBDA r : ~HasTriple(deleted, r))

\* mutant of AccessedEntities: every entity of the graph is stamped
AccessedEverywhere(entities, names, now) ==
    [i \in 1..Len(entities) |-> [entities[i] EXCEPT !.emotionalMetadata.lastAccessed = now]]

\* openNodes: lastAccessed on the entities the caller names
AccessedEntities(entities, names, now) ==
    [i \in 1..Len(entities) |->
        IF Contains(names, entities[i].name)
        THEN [entities[i] EXCEPT !.emotionalMetadata.lastAccessed = now]
        ELSE entities[i]]

----------------------------------------------------------------------------
(* searchNodes *)

\* a.toLowerCase().includes(query.toLowerCase())
Matches(a, query) == Includes(Words(a), Words(query))

\* mutant of score: no boost for isUserPreference and accessibilityFlag
scoreWithoutFlags(entity, query) ==
    (IF Matches(entity.name, query) THEN 10 * SCALE ELSE 0)
    + (IF Matches(entity.entityType, query) THEN 5 * SCALE ELSE 0)
    + (IF \E i \in 1..Len(entity.observations) : Matches(entity.observations[i], query)
       THEN 3 * SCALE ELSE 0)
    + entity.emotionalMetadata.emotionalResonance * 2
    + entity.emotionalMetadata.trustLevel * 2

\* the score of searchNodes, in units of 1/SCALE
score(entity, query) ==
    (IF Matches(entity.name, query) THEN 10 * SCALE ELSE 0)
    + (IF Matches(entity.entityType, query) THEN 5 * SCALE ELSE 0)
    + (IF \E i \in 1..Len(entity.observations) : Matches(entity.observations[i], query)
       THEN 3 * SCALE ELSE 0)
    + entity.emotionalMetadata.emotionalResonance * 2
    + (IF entity.emotionalMetadata.isUserPreference THEN 5 * SCALE ELSE 0)
    + (IF entity.emotionalMetadata.accessibilityFlag THEN 3 * SCALE ELSE 0)
    + entity.emotionalMetadata.trustLevel * 2

\* mutant of Sorted: an item goes before the items of the same score
RECURSIVE SortedTiesReversed(_)
SortedTiesReversed(items) ==
    IF items = <<>> THEN <<>>
    ELSE LET rest == SortedTiesReversed(SubSeq(items, 1, Len(items) - 1))
             item == items[Len(items)]
             before == SelectSeq(rest, LAMBDA x : x.score > item.score)
             after == SelectSeq(rest, LAMBDA x : x.score <= item.score)
         IN  before \o << item >> \o after

\* items.sort((a, b) => b.score - a.score): descending, and stable
RECURSIVE Sorted(_)
Sorted(items) ==
    IF items = <<>> THEN <<>>
    ELSE LET rest == Sorted(SubSeq(items, 1, Len(items) - 1))
             item == items[Len(items)]
             before == SelectSeq(rest, LAMBDA x : x.score >= item.score)
             after == SelectSeq(rest, LAMBDA x : x.score < item.score)
         IN  before \o << item >> \o after

\* mutant of scoredEntities: only the entities the query occurs in are returned
scoredMatching(entities, query) ==
    LET scored == [i \in 1..Len(entities) |->
                      [entity |-> entities[i], score |-> score(entities[i], query)]]
        sorted == Sorted(SelectSeq(scored, LAMBDA item :
                      \/ Matches(item.entity.name, query)
                      \/ Matches(item.entity.entityType, query)
                      \/ \E i \in 1..Len(item.entity.observations) :
                            Matches(item.entity.observations[i], query)))
    IN  [i \in 1..Len(sorted) |-> sorted[i].entity]

\* the entities searchNodes returns
scoredEntities(entities, query) ==
    LET scored == [i \in 1..Len(entities) |->
                      [entity |-> entities[i], score |-> score(entities[i], query)]]
        sorted == Sorted(SelectSeq(scored, LAMBDA item : item.score > 0))
    IN  [i \in 1..Len(sorted) |-> sorted[i].entity]

\* mutant of filteredRelations: only the start of a relation is looked up
filteredByFrom(relations, entities) ==
    SelectSeq(relations, LAMBDA r : HasName(entities, r.from))

\* the relations searchNodes returns: both ends among the entities returned
filteredRelations(relations, entities) ==
    SelectSeq(relations, LAMBDA r : HasName(entities, r.from) /\ HasName(entities, r.to))

----------------------------------------------------------------------------
(* Arguments of the calls *)

\* names of candidates that bring no emotionalMetadata and are not bootstrap names
InferredNames == {"Dave", "Sarah"}

Dave ==
    [ name |-> "Dave", entityType |-> "note", observations |-> << "Prefers ZSH" >>,
      emotionalMetadata |-> NoMeta ]

Sarah ==
    [ name |-> "Sarah", entityType |-> "note", observations |-> << "uses screen reader" >>,
      emotionalMetadata |-> NoMeta ]

SecondProfile ==
    [ name |-> "User_Profile", entityType |-> "note", observations |-> << "brief" >>,
      emotionalMetadata |-> NoMeta ]

\* a candidate that brings its own emotionalMetadata (trust 1.5, resonance -0.5)
Raw ==
    [ name |-> "Raw", entityType |-> "note", observations |-> <<>>,
      emotionalMetadata |->
        [ trustLevel |-> 15000,
          importancePattern |-> "preference",
          emotionalResonance |-> 0 - 5000,
          lastUpdated |-> 0,
          isUserPreference |-> TRUE,
          accessibilityFlag |-> FALSE,
          createdAt |-> 0,
          lastAccessed |-> NoTime,
          decayRate |-> NoRate ] ]

\* a candidate that brings its own emotionalMetadata: time-based, resonance 0.05
Faint ==
    [ name |-> "Faint", entityType |-> "note", observations |-> <<>>,
      emotionalMetadata |->
        [ trustLevel |-> 5000,
          importancePattern |-> "time-based",
          emotionalResonance |-> 500,
          lastUpdated |-> 0,
          isUserPreference |-> FALSE,
          accessibilityFlag |-> FALSE,
          createdAt |-> 0,
          lastAccessed |-> NoTime,
          decayRate |-> NoRate ] ]

\* a candidate that brings its own emotionalMetadata: trust 0 and resonance 0
Blank ==
    [ name |-> "Blank", entityType |-> "note", observations |-> <<>>,
      emotionalMetadata |->
        [ trustLevel |-> 0,
          importancePattern |-> "self-managed",
          emotionalResonance |-> 0,
          lastUpdated |-> 0,
          isUserPreference |-> FALSE,
          accessibilityFlag |-> FALSE,
          createdAt |-> 0,
          lastAccessed |-> NoTime,
          decayRate |-> NoRate ] ]

\* a candidate with a preference keyword, a relationship type and an
\* accessibility keyword, naming two shells
Bea ==
    [ name |-> "Bea", entityType |-> "team",
      observations |-> << "uses bash not fish", "uses screen reader" >>,
      emotionalMetadata |-> NoMeta ]

\* a candidate with a relationship type and no other keyword
Team ==
    [ name |-> "Team", entityType |-> "relationship", observations |-> <<>>,
      emotionalMetadata |-> NoMeta ]

\* a candidate with no keyword, whose observation holds a line feed
Multi ==
    [ name |-> "Multi", entityType |-> "note",
      observations |-> << "line one\nline two" >>,
      emotionalMetadata |-> NoMeta ]

\* two candidates with no keyword; the first is named like a shell
Zsh ==
    [ name |-> "zsh", entityType |-> "note", observations |-> <<>>,
      emotionalMetadata |-> NoMeta ]

Memo ==
    [ name |-> "Memo", entityType |-> "note", observations |-> <<>>,
      emotionalMetadata |-> NoMeta ]

EntityBatches ==
    { << Dave >>, << Dave, Dave >>, << SecondProfile, Sarah >>, << Raw >> }

ObservationBatches ==
    { << [entityName |-> "Dave", contents |-> << "likes tea" >>] >>,
      << [entityName |-> "Dave", contents |-> << "likes tea", "likes tea" >>] >>,
      << [entityName |-> "Dave", contents |-> << "likes tea" >>],
         [entityName |-> "Dave", contents |-> << "likes tea" >>] >>,
      << [entityName |-> "AI_Assistant_Identity", contents |-> << "likes tea" >>],
         [entityName |-> "Ghost", contents |-> << "brief" >>] >> }

DeletionBatches ==
    { << [entityName |-> "Ghost", observations |-> << "brief" >>],
         [entityName |-> "Sarah", observations |-> << "uses screen reader" >>] >>,
      << [entityName |-> "User_Profile",
          observations |-> << "Learning about user preferences and working style" >>] >> }

NameLists ==
    { << "Dave" >>, << "User_Profile", "Ghost" >> }

DaveKnowsSarah == [from |-> "Dave", to |-> "Sarah", relationType |-> "knows"]
SarahAsksProfile == [from |-> "Sarah", to |-> "User_Profile", relationType |-> "asks"]

RelationBatches ==
    { << DaveKnowsSarah, DaveKnowsSarah >>, << BootstrapRelation, SarahAsksProfile >> }

RelationDeletions ==
    { << BootstrapRelation, DaveKnowsSarah >> }

OpenLists ==
    { << "AI_Assistant_Identity", "Ghost" >> }

----------------------------------------------------------------------------
(* The state machine *)

\* what loadGraph returns now
Graph == loadGraph(store, bootstrap[Locale(language)], clock)

\* the entities as saveGraph writes them (applyEmotionalDecay works in place)
SavedEntities(graph) == applyEmotionalDecay(graph.entities, clock, lastDecayCheck)

\* mutant of Save: the timestamp of the decay engine advances on every save
SaveStamping(graph) ==
    /\ graph.metadata.totalInteractions < MaxInteractions
    /\ Len(graph.entities) <= MaxEntities
    /\ store' = saveGraph(graph, clock, lastDecayCheck)
    /\ lastDecayCheck' = clock

\* await this.saveGraph(graph)
Save(graph) ==
    /\ graph.metadata.totalInteractions < MaxInteractions
    /\ Len(graph.entities) <= MaxEntities
    /\ store' = saveGraph(graph, clock, lastDecayCheck)
    /\ lastDecayCheck' = IF DecayDue(clock, lastDecayCheck) THEN clock ELSE lastDecayCheck

Init ==
    /\ store = [exists |-> FALSE, lines |-> <<>>]
    /\ bootstrap = BOOTSTRAP_CONTENT
    /\ language = "en"
    /\ lastDecayCheck = 0
    /\ clock = 0
    /\ calls = [pending |-> <<>>, answered |-> 0, failed |-> 0]
    /\ last = [op |-> "new", result |-> <<>>, error |-> "none"]

\* the instants at which calls arrive: the construction of the manager, half an
\* hour and one hour later, one week later, and one hour after that
Instants == {0, 1, HOUR, WEEK, WEEK + HOUR}

\* time passes between two calls
Tick(t) ==
    /\ t > clock
    /\ clock' = t
    /\ UNCHANGED <<store, bootstrap, language, lastDecayCheck, calls, last>>

CreateEntities(entities) ==
    \E graph \in {Graph} :
    \E newEntities \in {NewEntities(graph.entities, entities, clock)} :
    \E changed \in {[graph EXCEPT
                       !.entities = @ \o newEntities,
                       !.metadata.userProfile =
                           updateUserProfileFromEntities(@, newEntities)]} :
    \E saved \in {SavedEntities(changed)} :
        /\ Save(changed)
        /\ last' = [op |-> "createEntities",
                    result |-> SubSeq(saved, Len(graph.entities) + 1, Len(saved)),
                    error |-> "none"]
        /\ UNCHANGED <<bootstrap, language, clock, calls>>

\* the arrays of BOOTSTRAP_CONTENT after a call that worked on `entities`: the
\* bootstrap graph's two entities hold the arrays themselves, and push() changes them
SharedContent(entities) ==
    IF store.exists THEN bootstrap
    ELSE [bootstrap EXCEPT ![Locale(language)] =
             [ai_identity |-> entities[1].observations,
              user_profile |-> entities[2].observations]]

AddObservations(observations) ==
    \E graph \in {Graph} :
    \E done \in {AddEach(observations, graph.entities, <<>>, clock)} :
        /\ bootstrap' = SharedContent(done.entities)
        /\ IF done.error = "none"
           THEN Save([graph EXCEPT !.entities = done.entities])
           ELSE UNCHANGED <<store, lastDecayCheck>>
        /\ last' = [op |-> "addObservations",
                    result |-> IF done.error = "none" THEN done.results ELSE <<>>,
                    error |-> done.error]
        /\ UNCHANGED <<language, clock, calls>>

DeleteObservations(deletions) ==
    \E graph \in {Graph} :
        /\ Save([graph EXCEPT !.entities = DeleteEach(deletions, @, clock)])
        /\ last' = [op |-> "deleteObservations", result |-> <<>>, error |-> "none"]
        /\ UNCHANGED <<bootstrap, language, clock, calls>>

DeleteEntities(entityNames) ==
    \E graph \in {Graph} :
        /\ Save([graph EXCEPT
                   !.entities = RemainingEntities(@, entityNames),
                   !.relations = RemainingRelations(@, entityNames)])
        /\ last' = [op |-> "deleteEntities", result |-> <<>>, error |-> "none"]
        /\ UNCHANGED <<bootstrap, language, clock, calls>>

CreateRelations(relations) ==
    \E graph \in {Graph} :
    \E newRelations \in {NewRelations(graph.relations, relations)} :
        /\ Save([graph EXCEPT !.relations = @ \o newRelations])
        /\ last' = [op |-> "createRelations", result |-> newRelations, error |-> "none"]
        /\ UNCHANGED <<bootstrap, language, clock, calls>>

DeleteRelations(relations) ==
    \E graph \in {Graph} :
        /\ Save([graph EXCEPT !.relations = RelationsWithout(@, relations)])
        /\ last' = [op |-> "deleteRelations", result |-> <<>>, error |-> "none"]
        /\ UNCHANGED <<bootstrap, language, clock, calls>>

OpenNodes(names) ==
    \E graph \in {Graph} :
    \E changed \in {[graph EXCEPT !.entities = AccessedEntities(@, names, clock)]} :
    \E saved \in {SavedEntities(changed)} :
        /\ Save(changed)
        /\ last' = [op |-> "openNodes",
                    result |-> SelectSeq(saved, LAMBDA e : Contains(names, e.name)),
                    error |-> "none",
                    relations |->
                        filteredRelations(graph.relations,
                                          SelectSeq(saved, LAMBDA e : Contains(names, e.name)))]
        /\ UNCHANGED <<bootstrap, language, clock, calls>>

Next ==
    \/ \E t \in Instants : Tick(t)
    \/ \E entities \in EntityBatches : CreateEntities(entities)
    \/ \E observations \in ObservationBatches : AddObservations(observations)
    \/ \E deletions \in DeletionBatches : DeleteObservations(deletions)
    \/ \E entityNames \in NameLists : DeleteEntities(entityNames)
    \/ \E relations \in RelationBatches : CreateRelations(relations)
    \/ \E relations \in RelationDeletions : DeleteRelations(relations)
    \/ \E names \in OpenLists : OpenNodes(names)

Spec == Init /\ [][Next]_vars

----------------------------------------------------------------------------
(* Searches between the calls that create entities *)

SearchedBatches ==
    { << Dave, Sarah >>, << Zsh, Memo >>, << Memo, Zsh >> }

Queries == { "zsh", "screen reader", "note" }

SearchNodes(query) ==
    \E graph \in {Graph} :
    \E found \in {scoredEntities(graph.entities, query)} :
        /\ last' = [op |-> "searchNodes", result |-> found, error |-> "none",
                    query |-> query,
                    relations |-> filteredRelations(graph.relations, found)]
        /\ UNCHANGED <<store, bootstrap, language, lastDecayCheck, clock, calls>>

SearchedNext ==
    \/ \E t \in Instants : Tick(t)
    \/ \E entities \in SearchedBatches : CreateEntities(entities)
    \/ \E query \in Queries : SearchNodes(query)

Searched == Init /\ [][SearchedNext]_vars

----------------------------------------------------------------------------
(* The manager started with a language: AI_BRAIN_LANGUAGE names a locale of
   BOOTSTRAP_CONTENT or another language *)

LanguageTags == { "en", "de", "fr" }

LocalisedInit ==
    /\ store = [exists |-> FALSE, lines |-> <<>>]
    /\ bootstrap = BOOTSTRAP_CONTENT
    /\ language \in LanguageTags
    /\ lastDecayCheck = 0
    /\ clock = 0
    /\ calls = [pending |-> <<>>, answered |-> 0, failed |-> 0]
    /\ last = [op |-> "new", result |-> <<>>, error |-> "none"]

LocalisedNext ==
    \/ \E t \in Instants : Tick(t)
    \/ \E query \in Queries : SearchNodes(query)
    \/ \E observations \in ObservationBatches : AddObservations(observations)
    \/ \E names \in OpenLists : OpenNodes(names)

Localised == LocalisedInit /\ [][LocalisedNext]_vars

----------------------------------------------------------------------------
(* Calls that overlap.  The handler of index.js starts a call when its request
   arrives; a method gives way at await this.loadGraph() and at await
   fs.writeFile(...), and nothing makes a call wait for the one before it. *)

ServedCalls ==
    { [op |-> "createEntities", entities |-> << Dave >>, entityNames |-> <<>>],
      [op |-> "deleteEntities", entities |-> <<>>, entityNames |-> << "User_Profile", "Ghost" >>] }

\* the graph of a call between its load and its save
Changed(call, graph, now) ==
    IF call.op = "createEntities"
    THEN LET newEntities == NewEntities(graph.entities, call.entities, now)
         IN  [graph EXCEPT
                !.entities = @ \o newEntities,
                !.metadata.userProfile = updateUserProfileFromEntities(@, newEntities)]
    ELSE [graph EXCEPT
            !.entities = RemainingEntities(@, call.entityNames),
            !.relations = RemainingRelations(@, call.entityNames)]

\* fs.writeFile writes from the start of the file: what the file holds when it
\* had been written by another call after this call opened it (the last record
\* written runs into the record that was there; records taken as equally long)
Overlay(new, old) ==
    IF Len(old) <= Len(new) THEN new
    ELSE SubSeq(new, 1, Len(new) - 1) \o << Torn >> \o SubSeq(old, Len(new) + 1, Len(old))

Without(s, i) == SubSeq(s, 1, i - 1) \o SubSeq(s, i + 1, Len(s))

\* a request arrives: the call loads the file, changes the graph, applies the
\* decay pass and has its lines ready for fs.writeFile
Receive(call) ==
    /\ Len(calls.pending) + calls.answered + calls.failed < MaxCalls
    /\ \E graph \in {Graph} :
       \E changed \in {Changed(call, graph, clock)} :
          calls' = [calls EXCEPT !.pending =
                       Append(@, [op |-> call.op,
                                  file |-> saveGraph(changed, clock, lastDecayCheck),
                                  stage |-> "loaded"])]
    /\ lastDecayCheck' = IF DecayDue(clock, lastDecayCheck) THEN clock ELSE lastDecayCheck
    /\ UNCHANGED <<store, bootstrap, language, clock, last>>

\* fs.writeFile opens the file (flag 'w'): the file is there and empty
OpenFile(i) ==
    /\ i \in 1..Len(calls.pending)
    /\ calls.pending[i].stage = "loaded"
    /\ store' = [exists |-> TRUE, lines |-> <<>>]
    /\ calls' = [calls EXCEPT !.pending[i].stage = "opened"]
    /\ UNCHANGED <<bootstrap, language, lastDecayCheck, clock, last>>

\* fs.writeFile writes the lines and the call is answered
WriteFile(i) ==
    /\ i \in 1..Len(calls.pending)
    /\ calls.pending[i].stage = "opened"
    /\ store' = [exists |-> TRUE,
                 lines |-> Overlay(calls.pending[i].file.lines, store.lines)]
    /\ calls' = [calls EXCEPT !.pending = Without(@, i), !.answered = @ + 1]
    /\ last' = [op |-> calls.pending[i].op, result |-> <<>>, error |-> "none"]
    /\ UNCHANGED <<bootstrap, language, lastDecayCheck, clock>>

\* fs.writeFile fails (the disk is full, the file may not be written): saveGraph
\* throws MemoryError and the file stays as the failed write left it
FailSave(i) ==
    /\ i \in 1..Len(calls.pending)
    /\ calls' = [calls EXCEPT !.pending = Without(@, i), !.failed = @ + 1]
    /\ last' = [op |-> calls.pending[i].op, result |-> <<>>, error |-> "MemoryError"]
    /\ UNCHANGED <<store, bootstrap, language, lastDecayCheck, clock>>

ServedNext ==
    \/ \E t \in Instants : Tick(t)
    \/ \E call \in ServedCalls : Receive(call)
    \/ \E i \in 1..MaxCalls : OpenFile(i)
    \/ \E i \in 1..MaxCalls : WriteFile(i)
    \/ \E i \in 1..MaxCalls : FailSave(i)

Served == Init /\ [][ServedNext]_vars

----------------------------------------------------------------------------
(* The calls that create, classify and delete entities, on more candidates *)

ClassifiedBatches ==
    { << Dave, Bea >>, << Bea, Dave >>, << Team, Multi >>, << SecondProfile, Sarah >> }

ClassifiedNext ==
    \/ \E t \in Instants : Tick(t)
    \/ \E entities \in ClassifiedBatches : CreateEntities(entities)
    \/ \E deletions \in DeletionBatches : DeleteObservations(deletions)
    \/ \E entityNames \in NameLists : DeleteEntities(entityNames)

Classified == Init /\ [][ClassifiedNext]_vars

----------------------------------------------------------------------------
(* Observations added to entities of every pattern, among them entities that
   brought their own metadata *)

ObservedCandidates ==
    { << Sarah >>, << Raw, Faint >> }

ObservedBatches ==
    { << [entityName |-> "User_Profile", contents |-> << "likes tea" >>] >>,
      << [entityName |-> "User_Profile", contents |-> << "likes tea" >>],
         [entityName |-> "User_Profile", contents |-> << "likes tea" >>] >>,
      << [entityName |-> "Sarah", contents |-> << "uses screen reader" >>] >>,
      << [entityName |-> "Raw", contents |-> << "likes tea" >>] >> }

ObservedNext ==
    \/ \E t \in Instants : Tick(t)
    \/ \E entities \in ObservedCandidates : CreateEntities(entities)
    \/ \E observations \in ObservedBatches : AddObservations(observations)

Observed == Init /\ [][ObservedNext]_vars

----------------------------------------------------------------------------
(* The handler of CallToolRequestSchema in index.js: one request after the
   other, with or without an arguments object, while the memory file can or
   cannot be opened *)

Requests ==
    { [name |-> "create_entities", hasArgs |-> TRUE,
       entities |-> << Dave >>, observations |-> <<>>],
      [name |-> "add_observations", hasArgs |-> TRUE, entities |-> <<>>,
       observations |-> << [entityName |-> "Dave", contents |-> << "likes tea" >>] >>],
      [name |-> "add_observations", hasArgs |-> TRUE, entities |-> <<>>,
       observations |-> << [entityName |-> "Ghost", contents |-> << "brief" >>] >>],
      [name |-> "search_nodes", hasArgs |-> TRUE, entities |-> <<>>, observations |-> <<>>],
      [name |-> "get_user_profile", hasArgs |-> TRUE, entities |-> <<>>, observations |-> <<>>],
      [name |-> "read_graph", hasArgs |-> FALSE, entities |-> <<>>, observations |-> <<>>],
      [name |-> "rename_entity", hasArgs |-> TRUE, entities |-> <<>>, observations |-> <<>>] }

\* whether fs can open the memory file: "denied" is EACCES on the file
Disks == { "ok", "denied" }

ReadOnlyTools == { "search_nodes", "read_graph", "get_user_profile" }

\* the switch of the handler, after the method has loaded the graph: the graph
\* the method has made, whether it goes on to save, and the error it throws
Outcome(request, graph, now) ==
    CASE request.name = "create_entities" ->
           [ graph |-> Changed([op |-> "createEntities", entities |-> request.entities,
                                entityNames |-> <<>>], graph, now),
             saves |-> TRUE, error |-> "none" ]
      [] request.name = "add_observations" ->
           LET done == AddEach(request.observations, graph.entities, <<>>, now)
           IN  [ graph |-> [graph EXCEPT !.entities = done.entities],
                 saves |-> done.error = "none", error |-> done.error ]
      [] request.name \in ReadOnlyTools ->
           [ graph |-> graph, saves |-> FALSE, error |-> "none" ]
      [] OTHER ->
           [ graph |-> graph, saves |-> FALSE, error |-> "Error" ]

\* the catch block of the handler: the text the caller gets for an error
Rendered(error) ==
    CASE error = "none" -> [kind |-> "text", prefix |-> ""]
      [] error = "UserPreferenceError" -> [kind |-> "text", prefix |-> "User Preference Error: "]
      [] error = "EmotionalProcessingError" ->
           [kind |-> "text", prefix |-> "Emotional Processing Error: "]
      [] error = "MemoryError" -> [kind |-> "text", prefix |-> "Memory Error: "]
      [] OTHER -> [kind |-> "text", prefix |-> "Unexpected error: "]

\* the handler throws: the caller gets no content from it
Thrown == [kind |-> "thrown", prefix |-> ""]

CallTool(request, disk) ==
    IF ~request.hasArgs
    THEN /\ last' = [op |-> request.name, result |-> <<>>, error |-> "Error",
                     response |-> Thrown]
         /\ UNCHANGED <<store, bootstrap, language, lastDecayCheck, clock, calls>>
    ELSE \E graph \in {Graph} :
         \E outcome \in {Outcome(request, graph, clock)} :
         \E error \in {IF outcome.error = "Error" THEN "Error"
                        ELSE IF disk = "denied" /\ store.exists THEN "MemoryError"
                        ELSE IF outcome.error # "none" THEN outcome.error
                        ELSE IF outcome.saves /\ disk = "denied" THEN "MemoryError"
                        ELSE "none"} :
            /\ bootstrap' = IF request.name = "add_observations"
                            THEN SharedContent(outcome.graph.entities)
                            ELSE bootstrap
            /\ IF outcome.saves /\ error = "none"
               THEN Save(outcome.graph)
               ELSE /\ store' = store
                    /\ lastDecayCheck' =
                          IF outcome.saves /\ outcome.error = "none" /\ ~store.exists
                             /\ DecayDue(clock, lastDecayCheck)
                          THEN clock ELSE lastDecayCheck
            /\ last' = [op |-> request.name, result |-> <<>>, error |-> error,
                        response |-> Rendered(error)]
            /\ UNCHANGED <<language, clock, calls>>

HandledNext ==
    \/ \E t \in Instants : Tick(t)
    \/ \E request \in Requests : \E disk \in Disks : CallTool(request, disk)

Handled == Init /\ [][HandledNext]_vars

----------------------------------------------------------------------------
(* The calls that read (readGraph, searchNodes, getUserProfile, openNodes)
   between the calls that save *)

DaveKnowsBlank == [from |-> "Dave", to |-> "Blank", relationType |-> "knows"]
DaveAsksProfile == [from |-> "Dave", to |-> "User_Profile", relationType |-> "asks"]

QueriedCandidates == { << Dave, Blank >> }

QueriedRelations == { << DaveKnowsBlank, DaveAsksProfile >> }

QueriedObservations ==
    { << [entityName |-> "Dave", contents |-> << "likes tea" >>] >>,
      << [entityName |-> "AI_Assistant_Identity", contents |-> << "likes tea" >>],
         [entityName |-> "Ghost", contents |-> << "brief" >>] >> }

QueriedNames ==
    { << "Dave", "User_Profile" >>, << "AI_Assistant_Identity", "Ghost" >> }

\* the types of the recommendations of generateRecommendations
generateRecommendations(profile) ==
    (IF profile.preferredShell = "unknown" THEN << "preference-detection" >> ELSE <<>>)
    \o (IF Len(profile.accessibilityNeeds) = 0 THEN << "accessibility-check" >> ELSE <<>>)
    \o (IF profile.trustLevel < 7000 THEN << "trust-building" >> ELSE <<>>)

ReadGraph ==
    \E graph \in {Graph} :
        /\ last' = [op |-> "readGraph", result |-> graph.entities, error |-> "none",
                    relations |-> graph.relations]
        /\ UNCHANGED <<store, bootstrap, language, lastDecayCheck, clock, calls>>

GetUserProfile ==
    \E graph \in {Graph} :
        /\ last' = [op |-> "getUserProfile", result |-> <<>>, error |-> "none",
                    profile |-> graph.metadata.userProfile,
                    recommendations |-> generateRecommendations(graph.metadata.userProfile)]
        /\ UNCHANGED <<store, bootstrap, language, lastDecayCheck, clock, calls>>

QueriedNext ==
    \/ \E t \in Instants : Tick(t)
    \/ \E entities \in QueriedCandidates : CreateEntities(entities)
    \/ \E relations \in QueriedRelations : CreateRelations(relations)
    \/ \E observations \in QueriedObservations : AddObservations(observations)
    \/ \E deletions \in DeletionBatches : DeleteObservations(deletions)
    \/ \E entityNames \in NameLists : DeleteEntities(entityNames)
    \/ \E relations \in RelationDeletions : DeleteRelations(relations)
    \/ \E names \in QueriedNames : OpenNodes(names)
    \/ \E query \in Queries : SearchNodes(query)
    \/ ReadGraph
    \/ GetUserProfile

Queried == Init /\ [][QueriedNext]_vars

----------------------------------------------------------------------------
(* Observations with keywords added to and deleted from entities that exist *)

TouchedCandidates ==
    { << Sarah, Faint >>, << SecondProfile, Memo >> }

TouchedBatches ==
    { << [entityName |-> "Sarah", contents |-> << "Prefers ZSH", "team" >>] >>,
      << [entityName |-> "Memo",
          contents |-> << "uses bash not fish", "uses screen reader", "brief" >>] >>,
      << [entityName |-> "Faint", contents |-> << "team" >>] >>,
      << [entityName |-> "AI_Assistant_Identity", contents |-> << "Prefers ZSH" >>] >> }

TouchedDeletions ==
    { << [entityName |-> "Sarah", observations |-> << "uses screen reader" >>] >>,
      << [entityName |-> "Faint", observations |-> << "brief" >>] >> }

TouchedNext ==
    \/ \E t \in Instants : Tick(t)
    \/ \E entities \in TouchedCandidates : CreateEntities(entities)
    \/ \E observations \in TouchedBatches : AddObservations(observations)
    \/ \E deletions \in TouchedDeletions : DeleteObservations(deletions)

Touched == Init /\ [][TouchedNext]_vars

----------------------------------------------------------------------------
(* Searches of a graph that holds entities created with metadata of their own *)

ProbedCandidates ==
    { << Sarah, Blank >>, << Faint, Raw >> }

ProbedNext ==
    \/ \E t \in Instants : Tick(t)
    \/ \E entities \in ProbedCandidates : CreateEntities(entities)
    \/ \E query \in Queries : SearchNodes(query)

Probed == Init /\ [][ProbedNext]_vars

----------------------------------------------------------------------------
(* A store whose bootstrap entities are deleted, read before and after *)

EmptiedCandidates == { << SecondProfile, Memo >> }

EmptiedNames ==
    { << "AI_Assistant_Identity", "User_Profile" >>, << "Memo" >> }

EmptiedNext ==
    \/ \E t \in Instants : Tick(t)
    \/ \E entities \in EmptiedCandidates : CreateEntities(entities)
    \/ \E observations \in QueriedObservations \cup TouchedBatches :
          AddObservations(observations)
    \/ \E entityNames \in EmptiedNames : DeleteEntities(entityNames)
    \/ \E query \in Queries : SearchNodes(query)
    \/ ReadGraph
    \/ GetUserProfile

Emptied == Init /\ [][EmptiedNext]_vars

----------------------------------------------------------------------------
(* The graph a caller sees *)

Entities == Graph.entities
Relations == Graph.relations

NoDuplicates(s) == \A i, j \in 1..Len(s) : i # j => s[i] # s[j]

Names(entities) == [i \in 1..Len(entities) |-> entities[i].name]

Triples(relations) ==
    [i \in 1..Len(relations) |->
        <<relations[i].from, relations[i].to, relations[i].relationType>>]

\* the elements of a batch that name an entity the graph does not hold
NamesUnknown(batch, entities) ==
    \E k \in 1..Len(batch) : ~HasName(entities, batch[k].entityName)

----------------------------------------------------------------------------
(* C1..C4 *)

\* C1: entity names are unique: no two entities of the persisted graph have the
\* same name, whatever batches createEntities was given, a batch that lists the
\* same new name twice included.
EntityNamesUnique == NoDuplicates(Names(Entities))

\* C2: relation triples are unique: no two relations of the persisted graph have
\* the same (from, to, relationType), a batch that lists the same new triple
\* twice included.
RelationTriplesUnique == NoDuplicates(Triples(Relations))

\* C3: no entity holds the same observation string twice, whatever contents
\* lists addObservations was given, a list that repeats a string included.
ObservationsUnique ==
    \A i \in 1..Len(Entities) : NoDuplicates(Entities[i].observations)

\* C4: addObservations with a batch in which an element names an entity that
\* does not exist raises UserPreferenceError and leaves the graph unmodified: the
\* file is not written, and the graph the next load returns has the entities
\* (observations, trust, timestamps) and the interaction counter it had before.
FailedAddObservationsLeavesGraph ==
    [][\A observations \in ObservationBatches :
          (AddObservations(observations) /\ NamesUnknown(observations, Entities))
          => /\ last'.error = "UserPreferenceError"
             /\ store' = store
             /\ Graph' = Graph]_vars

----------------------------------------------------------------------------
(* C5..C7 *)

\* C5, as claimed: in addObservations and in deleteObservations alike, an element
\* naming an unknown entity aborts the batch with an error and nothing of the
\* batch is persisted.
UnknownEntityAbortsEveryBatch ==
    [][/\ \A observations \in ObservationBatches :
             (AddObservations(observations) /\ NamesUnknown(observations, Entities))
             => (last'.error # "none" /\ store' = store)
       /\ \A deletions \in DeletionBatches :
             (DeleteObservations(deletions) /\ NamesUnknown(deletions, Entities))
             => (last'.error # "none" /\ store' = store)]_vars

\* C5, amended: addObservations aborts with UserPreferenceError at the first
\* element naming an unknown entity and does not save (the file and the decay
\* timestamp stay as they were); deleteObservations raises no error: it skips
\* the elements naming unknown entities, removes the listed observations of every
\* entity the other elements name, and saves (the interaction counter advances).
UnknownEntityAbortsAddOnly ==
    [][/\ \A observations \in ObservationBatches :
             (/\ last'.op = "addObservations"
              /\ NamesUnknown(observations, Entities)
              /\ AddObservations(observations))
             => /\ last'.error = "UserPreferenceError"
                /\ store' = store
                /\ lastDecayCheck' = lastDecayCheck
       /\ \A deletions \in DeletionBatches :
             (last'.op = "deleteObservations" /\ DeleteObservations(deletions))
             => /\ last'.error = "none"
                /\ store'.exists
                /\ Graph'.metadata.totalInteractions = Graph.metadata.totalInteractions + 1
                /\ \A k \in 1..Len(deletions) :
                      LET i == FindEntity(Entities, deletions[k].entityName)
                      IN  i # 0 =>
                            \A n \in 1..Len(deletions[k].observations) :
                               ~Contains(Graph'.entities[i].observations,
                                         deletions[k].observations[n])]_vars

\* C5, witness: deleteObservations has run on a batch whose first element names
\* the unknown entity Ghost, and the observation of Sarah, which the second
\* element lists, is gone.
DeletedBehindUnknownEntity ==
    /\ last.op = "deleteObservations"
    /\ \E i \in 1..Len(Entities) :
          Entities[i].name = "Sarah" /\ Entities[i].observations = <<>>

\* the name, type and observations of each entity
Cores(entities) ==
    [i \in 1..Len(entities) |->
        [name |-> entities[i].name, entityType |-> entities[i].entityType,
         observations |-> entities[i].observations]]

\* C6: deleteEntities(names) removes every entity whose name is in names and
\* every relation whose from or to is in names, and leaves every other entity
\* and every relation with both endpoints outside names, in their order.
DeleteEntitiesRemovesExactly ==
    [][\A names \in NameLists :
          (last'.op = "deleteEntities" /\ DeleteEntities(names))
          => /\ \A i \in 1..Len(Graph'.entities) : ~Contains(names, Graph'.entities[i].name)
             /\ \A i \in 1..Len(Graph'.relations) :
                   /\ ~Contains(names, Graph'.relations[i].from)
                   /\ ~Contains(names, Graph'.relations[i].to)
             /\ Cores(Graph'.entities)
                  = Cores(SelectSeq(Graph.entities, LAMBDA e : ~Contains(names, e.name)))
             /\ Graph'.relations
                  = SelectSeq(Graph.relations,
                              LAMBDA r : ~Contains(names, r.from) /\ ~Contains(names, r.to))]_vars

\* C6, witness: deleteEntities has removed User_Profile and with it the bootstrap
\* relation that ends there, while the identity entity and the relation from
\* Dave to Sarah are still in the graph.
DeletedProfileKeepsOthers ==
    /\ last.op = "deleteEntities"
    /\ ~HasName(Entities, "User_Profile")
    /\ HasName(Entities, "AI_Assistant_Identity")
    /\ ~HasTriple(Relations, BootstrapRelation)
    /\ HasTriple(Relations, DaveKnowsSarah)

\* the fields createEntities must leave alone in an entity that exists
Kept(entity) ==
    [ entityType |-> entity.entityType,
      observations |-> entity.observations,
      importancePattern |-> entity.emotionalMetadata.importancePattern,
      isUserPreference |-> entity.emotionalMetadata.isUserPreference,
      accessibilityFlag |-> entity.emotionalMetadata.accessibilityFlag ]

\* C7: createEntities with a candidate whose name the graph holds raises no
\* error, returns no entity of that name, and leaves the type, observations and
\* metadata flags of every existing entity as they were.
CreateEntitiesSkipsExisting ==
    [][\A entities \in EntityBatches :
          (last'.op = "createEntities" /\ CreateEntities(entities))
          => /\ last'.error = "none"
             /\ \A k \in 1..Len(entities) :
                   HasName(Entities, entities[k].name)
                   => ~HasName(last'.result, entities[k].name)
             /\ \A i \in 1..Len(Entities) :
                   /\ Graph'.entities[i].name = Entities[i].name
                   /\ Kept(Graph'.entities[i]) = Kept(Entities[i])]_vars

\* C7, witness: createEntities has run on candidates that all exist (Dave is in
\* the graph) and has returned the empty list.
CreatedNothingNew ==
    /\ last.op = "createEntities"
    /\ last.result = <<>>
    /\ HasName(Entities, "Dave")

----------------------------------------------------------------------------
(* C8..C10 *)

InUnit(x) == 0 <= x /\ x <= SCALE

\* a decay pass has been applied at this instant
PassApplied == store.exists /\ lastDecayCheck = clock /\ clock > 0

\* C8: in every persisted state the trust and the resonance of every entity lie
\* in [0,1], and after a decay pass the resonance of every time-based entity is
\* at least 0.1, however the entity came into the graph.
ScoresClamped ==
    \A i \in 1..Len(Entities) :
        LET metadata == Entities[i].emotionalMetadata
        IN  /\ InUnit(metadata.trustLevel)
            /\ InUnit(metadata.emotionalResonance)
            /\ (PassApplied /\ metadata.importancePattern = "time-based")
               => metadata.emotionalResonance >= ResonanceFloor

\* the entities of the graph that the step keeps, in their order: all of them,
\* but for a deleteEntities step those it does not name
Followed ==
    IF last'.op = "deleteEntities" /\ \E names \in NameLists : DeleteEntities(names)
    THEN SelectSeq(Entities,
                   LAMBDA e : ~Contains(CHOOSE names \in NameLists : DeleteEntities(names),
                                        e.name))
    ELSE Entities

\* C9: the resonance of an entity whose importancePattern is preference or
\* strengthen never decreases, whatever is saved and whether or not a decay pass
\* is applied.
StrengtheningResonanceNeverDecreases ==
    [][\A i \in 1..Len(Followed) :
          Followed[i].emotionalMetadata.importancePattern \in {"preference", "strengthen"}
          => Graph'.entities[i].emotionalMetadata.emotionalResonance
               >= Followed[i].emotionalMetadata.emotionalResonance]_vars

\* C10: the resonance of an entity that createEntities gave inferred metadata
\* with isUserPreference or accessibilityFlag set never decreases, whatever is
\* saved and whichever decay passes are applied.
ProtectedResonanceNeverDecreases ==
    [][\A i \in 1..Len(Followed) :
          (/\ Followed[i].name \in InferredNames
           /\ \/ Followed[i].emotionalMetadata.isUserPreference
              \/ Followed[i].emotionalMetadata.accessibilityFlag)
          => Graph'.entities[i].emotionalMetadata.emotionalResonance
               >= Followed[i].emotionalMetadata.emotionalResonance]_vars

----------------------------------------------------------------------------
(* C11..C14 *)

\* the calls that save and themselves leave the trust, resonance and lastUpdated
\* of the entities they keep alone
LeavesScores ==
    {"createEntities", "deleteEntities", "createRelations", "deleteRelations", "openNodes"}

Scores(entity) ==
    [ trustLevel |-> entity.emotionalMetadata.trustLevel,
      emotionalResonance |-> entity.emotionalMetadata.emotionalResonance,
      lastUpdated |-> entity.emotionalMetadata.lastUpdated ]

\* C11: a save less than one hour after the last applied decay pass (or after
\* the construction of the manager) applies no pass: the decay timestamp stays,
\* no entity's resonance changes, and but for what the call itself does to the
\* entities it names (addObservations, deleteObservations) no entity's trust or
\* lastUpdated changes, so the entities have the metadata of the previous save.
DecaySkippedWithinHour ==
    [][(clock - lastDecayCheck < HOUR /\ store' # store)
       => /\ lastDecayCheck' = lastDecayCheck
          /\ \A before \in {Followed} :
             \A after \in {Graph'.entities} :
             \A i \in 1..Len(before) :
                /\ after[i].emotionalMetadata.emotionalResonance
                     = before[i].emotionalMetadata.emotionalResonance
                /\ last'.op \in LeavesScores
                   => Scores(after[i]) = Scores(before[i])]_vars

\* C11, witness: half an hour after the construction of the manager a second
\* call has saved, and the time-based entity Sarah that the first call created
\* at the construction still has its resonance 0.5 and its lastUpdated.
SavedTwiceWithinHour ==
    /\ clock = 1
    /\ lastDecayCheck = 0
    /\ last.op = "createRelations"
    /\ \E i \in 1..Len(Entities) :
          /\ Entities[i].name = "Sarah"
          /\ Entities[i].emotionalMetadata.importancePattern = "time-based"
          /\ Entities[i].emotionalMetadata.emotionalResonance = DefaultResonance
          /\ Entities[i].emotionalMetadata.lastUpdated = 0

\* the step has saved the graph as it was loaded: no call changed it
SavedAsLoaded == store' = saveGraph(Graph, clock, lastDecayCheck)

EveryAnsweredCallCounted ==
    (calls.pending = <<>> /\ calls.failed = 0 /\ calls.answered > 0)
    => /\ store.exists
       /\ Graph.metadata.totalInteractions = calls.answered

\* a complete file: one metadata record, then entity records, then relation records
WholeFile(lines) ==
    /\ Len(lines) >= 1
    /\ lines[1].type = "metadata"
    /\ \A i \in 2..Len(lines) : lines[i].type \in {"entity", "relation"}
    /\ \A i, j \in 2..Len(lines) :
          (i < j /\ lines[i].type = "relation") => lines[j].type = "relation"

\* C14: save rewrites the store atomically: once a save has failed part-way and
\* no call is in flight, the store is what it was before (missing, before the
\* first save) or a complete record sequence, never an emptied, truncated or
\* mixed file.
SaveIsAtomic ==
    (calls.failed > 0 /\ calls.pending = <<>>)
    => (store.exists => WholeFile(store.lines))

----------------------------------------------------------------------------
(* C15..C17 *)

\* one of the keywords occurs in the lower-case text of name, type and observations
Mentions(entity, keywords) == \E k \in keywords : Includes(Content(entity), k)

\* the entity's type contains one of the relationship types
TypeAmong(entity, types) == \E t \in types : Includes(Words(entity.entityType), t)

ShellOf(entity) ==
    LET content == ProfileContent(entity)
    IN  IF Includes(content, <<"zsh">>) THEN "zsh"
        ELSE IF Includes(content, <<"bash">>) THEN "bash"
        ELSE IF Includes(content, <<"fish">>) THEN "fish"
        ELSE IF Includes(content, <<"powershell">>) THEN "powershell"
        ELSE "none"

Profile == Graph.metadata.userProfile

\* C16: after createEntities the profile's preferredShell is the shell of the
\* last accepted entity of the batch, in batch order, that mentions a shell; when
\* no accepted entity mentions one, preferredShell keeps its value.
LastShellWins ==
    [][\A entities \in ClassifiedBatches :
          (last'.op = "createEntities" /\ CreateEntities(entities))
          => LET accepted == AcceptedEntities(Entities, entities)
                 mentioning == {k \in 1..Len(accepted) : ShellOf(accepted[k]) # "none"}
             IN  Profile'.preferredShell =
                    IF mentioning = {} THEN Profile.preferredShell
                    ELSE ShellOf(accepted[CHOOSE k \in mentioning :
                                             \A j \in mentioning : j <= k])]_vars

\* C16, witness: createEntities has inserted Dave (zsh) and then Bea (bash, fish)
\* in one batch and the profile says bash.
LastShellWon ==
    /\ last.op = "createEntities"
    /\ Names(last.result) = << "Dave", "Bea" >>
    /\ Profile.preferredShell = "bash"

\* s is the beginning of t
StartsWith(t, s) == Len(s) <= Len(t) /\ SubSeq(t, 1, Len(s)) = s

\* C17: the tags of the persisted profile only accumulate: no step, deleteEntities
\* and deleteObservations of the entity that caused a tag included, removes a tag
\* from accessibilityNeeds or communicationPrefs, and neither holds a tag twice.
TagsOnlyAccumulate ==
    [][/\ StartsWith(Profile'.accessibilityNeeds, Profile.accessibilityNeeds)
       /\ StartsWith(Profile'.communicationPrefs, Profile.communicationPrefs)
       /\ NoDuplicates(Profile'.accessibilityNeeds)
       /\ NoDuplicates(Profile'.communicationPrefs)]_vars

\* C17, witness: deleteObservations has removed from Sarah the observation that
\* caused the tag screen-reader, and the profile still has the tag.
TagOutlivesItsSource ==
    /\ last.op = "deleteObservations"
    /\ \E i \in 1..Len(Entities) :
          Entities[i].name = "Sarah" /\ Entities[i].observations = <<>>
    /\ Profile.accessibilityNeeds = << "screen-reader" >>

----------------------------------------------------------------------------
(* C18, C19 *)

\* the query occurs in the name, in the type, in an observation of the entity
InName(entity, query) == Includes(Words(entity.name), Words(query))
InType(entity, query) == Includes(Words(entity.entityType), Words(query))
InObservation(entity, query) ==
    \E i \in 1..Len(entity.observations) :
        Includes(Words(entity.observations[i]), Words(query))

\* the score as claimed, times SCALE
ClaimedScore(entity, query) ==
    LET metadata == entity.emotionalMetadata
    IN  SCALE * ( (IF InName(entity, query) THEN 10 ELSE 0)
                  + (IF InType(entity, query) THEN 5 ELSE 0)
                  + (IF InObservation(entity, query) THEN 3 ELSE 0)
                  + (IF metadata.isUserPreference THEN 5 ELSE 0)
                  + (IF metadata.accessibilityFlag THEN 3 ELSE 0) )
        + 2 * metadata.emotionalResonance + 2 * metadata.trustLevel

\* the place of the entity of this name in the graph
Position(name) == FindEntity(Entities, name)

\* an entity without the timestamps of its metadata
Timeless(entity) ==
    [entity EXCEPT !.emotionalMetadata.lastUpdated = 0,
                   !.emotionalMetadata.createdAt = 0,
                   !.emotionalMetadata.lastAccessed = 0]

\* C18: searchNodes returns entities of the graph in descending order of the
\* score 10 (name) + 5 (type) + 3 (an observation) + 2 resonance + 2 trust
\* + 5 (isUserPreference) + 3 (accessibilityFlag); entities of equal score come
\* in their graph order.
SearchOrderedByScore ==
    last.op = "searchNodes"
    => /\ \A k \in 1..Len(last.result) :
             /\ Position(last.result[k].name) # 0
             /\ Timeless(Entities[Position(last.result[k].name)]) = Timeless(last.result[k])
       /\ \A k \in 1..(Len(last.result) - 1) :
             LET a == last.result[k]
                 b == last.result[k + 1]
             IN  \/ ClaimedScore(a, last.query) > ClaimedScore(b, last.query)
                 \/ /\ ClaimedScore(a, last.query) = ClaimedScore(b, last.query)
                    /\ Position(a.name) < Position(b.name)

\* C18, witness: the search for "note" has returned User_Profile (7.8), then Memo
\* and zsh (7 each, Memo before zsh in the graph), then the identity entity (3.5).
SearchReturnedTie ==
    /\ last.op = "searchNodes"
    /\ last.query = "note"
    /\ Names(last.result) = << "User_Profile", "Memo", "zsh", "AI_Assistant_Identity" >>

\* the entity matches the query in its name, its type or an observation
MatchesQuery(entity, query) ==
    InName(entity, query) \/ InType(entity, query) \/ InObservation(entity, query)

\* C19, as claimed: whenever an entity flagged isUserPreference matches the query,
\* the first entity returned is flagged isUserPreference, and whenever an entity
\* flagged accessibilityFlag matches, the first returned is flagged accessibilityFlag.
FlaggedMatchComesFirst ==
    last.op = "searchNodes"
    => /\ (\E i \in 1..Len(Entities) :
              /\ Entities[i].emotionalMetadata.isUserPreference
              /\ MatchesQuery(Entities[i], last.query))
          => last.result[1].emotionalMetadata.isUserPreference
       /\ (\E i \in 1..Len(Entities) :
              /\ Entities[i].emotionalMetadata.accessibilityFlag
              /\ MatchesQuery(Entities[i], last.query))
          => last.result[1].emotionalMetadata.accessibilityFlag

\* C19, amended: the first entity returned has the highest score of the graph;
\* so a matching entity flagged isUserPreference (accessibilityFlag) is followed
\* by no unflagged entity of a lower score, and the first entity returned is
\* flagged whenever a flagged entity scores higher than every unflagged one.
HighestScoreComesFirst ==
    (last.op = "searchNodes" /\ last.result # <<>>)
    => /\ \A i \in 1..Len(Entities) :
             ClaimedScore(last.result[1], last.query)
               >= ClaimedScore(Entities[i], last.query)
       /\ (\E i \in 1..Len(Entities) :
              /\ Entities[i].emotionalMetadata.isUserPreference
              /\ MatchesQuery(Entities[i], last.query)
              /\ \A j \in 1..Len(Entities) :
                    ~Entities[j].emotionalMetadata.isUserPreference
                    => ClaimedScore(Entities[j], last.query)
                         < ClaimedScore(Entities[i], last.query))
          => last.result[1].emotionalMetadata.isUserPreference
       /\ (\E i \in 1..Len(Entities) :
              /\ Entities[i].emotionalMetadata.accessibilityFlag
              /\ MatchesQuery(Entities[i], last.query)
              /\ \A j \in 1..Len(Entities) :
                    ~Entities[j].emotionalMetadata.accessibilityFlag
                    => ClaimedScore(Entities[j], last.query)
                         < ClaimedScore(Entities[i], last.query))
          => last.result[1].emotionalMetadata.accessibilityFlag

\* C19, witness: the search for "zsh" has returned the preference entity Dave
\* first, before the bootstrap entities and Sarah.
PreferenceReturnedFirst ==
    /\ last.op = "searchNodes"
    /\ last.query = "zsh"
    /\ Len(last.result) = 4
    /\ last.result[1].name = "Dave"
    /\ last.result[1].emotionalMetadata.isUserPreference

----------------------------------------------------------------------------
(* C20 *)

----------------------------------------------------------------------------
(* C21 *)

\* the trust the elements of a batch give the entity of this name, as claimed:
\* 0.01 more, up to 1.0, for each element that names it and appends a string it
\* does not hold yet (held: the strings it holds)
RECURSIVE ClaimedTrust(_, _, _, _)
ClaimedTrust(name, held, trust, elements) ==
    IF elements = <<>> THEN trust
    ELSE LET o == Head(elements)
             fresh == {o.contents[n] : n \in 1..Len(o.contents)} \ held
         IN  IF o.entityName # name
             THEN ClaimedTrust(name, held, trust, Tail(elements))
             ELSE ClaimedTrust(name, held \cup fresh,
                               IF fresh # {} THEN Min(SCALE, trust + 100) ELSE trust,
                               Tail(elements))

Held(entity) == {entity.observations[n] : n \in 1..Len(entity.observations)}

Named(observations, name) ==
    \E k \in 1..Len(observations) : observations[k].entityName = name

\* C21, as claimed: after a successful addObservations the trust of every entity
\* is 0.01 higher (capped at 1.0) for each element that appended an observation
\* to it and unchanged otherwise, and every entity an element names has
\* lastUpdated and lastAccessed at the time of the call.
TrustRaisedOnlyByNewObservations ==
    [][\A observations \in ObservedBatches :
          (/\ last'.op = "addObservations"
           /\ last'.error = "none"
           /\ AddObservations(observations))
          => \A before \in {Entities} :
             \A after \in {Graph'.entities} :
             \A i \in 1..Len(before) :
                /\ after[i].emotionalMetadata.trustLevel
                     = ClaimedTrust(before[i].name, Held(before[i]),
                                    before[i].emotionalMetadata.trustLevel, observations)
                /\ Named(observations, before[i].name)
                   => /\ after[i].emotionalMetadata.lastUpdated = clock
                      /\ after[i].emotionalMetadata.lastAccessed = clock]_vars

\* C21, amended: the elements raise the trust as claimed, and the save that ends
\* the call applies its decay pass to the result: when a pass is due and the
\* entity's pattern is strengthen the persisted trust is the claimed value times
\* 1.002 (capped at 1.0), also when no element appended anything; otherwise it
\* is the claimed value.  Every entity an element names has lastUpdated and
\* lastAccessed at the time of the call.
TrustRaisedThenDecayPass ==
    [][\A observations \in ObservedBatches :
          (/\ last'.op = "addObservations"
           /\ last'.error = "none"
           /\ AddObservations(observations))
          => \A before \in {Entities} :
             \A after \in {Graph'.entities} :
             \A i \in 1..Len(before) :
                LET claimed == ClaimedTrust(before[i].name, Held(before[i]),
                                            before[i].emotionalMetadata.trustLevel,
                                            observations)
                    strengthened ==
                        /\ clock - lastDecayCheck >= HOUR
                        /\ before[i].emotionalMetadata.importancePattern = "strengthen"
                IN  /\ after[i].emotionalMetadata.trustLevel
                         = IF strengthened THEN Min(SCALE, (claimed * 1002) \div 1000)
                           ELSE claimed
                    /\ Named(observations, before[i].name)
                       => /\ after[i].emotionalMetadata.lastUpdated = clock
                          /\ after[i].emotionalMetadata.lastAccessed = clock]_vars

\* C21, witness: addObservations has appended "likes tea" to User_Profile
\* (strengthen, trust 0.6) in a save that applied a decay pass: the persisted
\* trust is 0.61 * 1.002.
TrustRaisedAndStrengthened ==
    /\ last.op = "addObservations"
    /\ last.error = "none"
    /\ lastDecayCheck = clock
    /\ \E i \in 1..Len(Entities) :
          /\ Entities[i].name = "User_Profile"
          /\ Contains(Entities[i].observations, "likes tea")
          /\ Entities[i].emotionalMetadata.trustLevel = 6112
          /\ Entities[i].emotionalMetadata.lastAccessed = clock

----------------------------------------------------------------------------
(* C22 *)

\* C22: every tool call, for any tool name, with or without an arguments object
\* and whatever error the core raises, ends with a text response of the handler
\* and no exception leaves the handler; UserPreferenceError, MemoryError and
\* other errors are rendered with prefixes that differ.
EveryCallAnsweredWithText ==
    last.op # "new"
    => /\ last.response.kind = "text"
       /\ last.error = "UserPreferenceError"
          => last.response.prefix = "User Preference Error: "
       /\ last.error = "MemoryError" => last.response.prefix = "Memory Error: "
       /\ last.error = "Error" => last.response.prefix = "Unexpected error: "

----------------------------------------------------------------------------
(* C23 *)

\* the items of the records of this type that parse, in the order of the store
ParsedItems(lines, type) ==
    LET kept == SelectSeq(lines, LAMBDA line : line.type = type /\ Parses(line))
    IN  [i \in 1..Len(kept) |-> kept[i].item]

\* C23: load of a store that exists returns exactly the entities and the
\* relations of the records that parse, in store order, whatever records of the
\* store do not parse (load has no outcome but a graph: no error).
LoadSkipsBadRecords ==
    store.exists
    => /\ Entities = ParsedItems(store.lines, "entity")
       /\ Relations = ParsedItems(store.lines, "relation")

\* C23, witness: the store holds six records, among them the record of Multi
\* that does not parse (between the record of Team and the relation record),
\* and load returns the three other entities and the relation.
BadRecordSkipped ==
    /\ store.exists
    /\ Len(store.lines) = 6
    /\ \E i \in 1..Len(store.lines) :
          /\ ~Parses(store.lines[i])
          /\ store.lines[i].item.name = "Multi"
    /\ Names(Entities) = << "AI_Assistant_Identity", "User_Profile", "Team" >>
    /\ Relations = << BootstrapRelation >>

----------------------------------------------------------------------------
(* C24 *)

\* C24: the trust of an entity never decreases while the entity stays in the
\* graph: no step lowers the trust of an entity that the graph held before the
\* step and holds after it.
TrustNeverDecreases ==
    [][\A before \in {Entities} :
       \A after \in {Graph'.entities} :
       \A i \in 1..Len(before) :
          after[i].emotionalMetadata.trustLevel >= before[i].emotionalMetadata.trustLevel]_vars

----------------------------------------------------------------------------
(* C25 *)

\* the one rule of the entity's pattern took the metadata `before` to `after`
RuleOfPattern(before, after) ==
    CASE before.importancePattern = "self-managed" ->
           /\ after.trustLevel = before.trustLevel
           /\ after.emotionalResonance = before.emotionalResonance
      [] before.importancePattern = "preference" ->
           /\ after.trustLevel = before.trustLevel
           /\ after.emotionalResonance = Min(SCALE, (before.emotionalResonance * 1001) \div 1000)
      [] before.importancePattern = "strengthen" ->
           /\ after.trustLevel = Min(SCALE, (before.trustLevel * 1002) \div 1000)
           /\ after.emotionalResonance = Min(SCALE, (before.emotionalResonance * 1001) \div 1000)
      [] before.importancePattern = "time-based" ->
           /\ after.trustLevel = before.trustLevel
           /\ after.emotionalResonance >= 1000
           /\ after.emotionalResonance <= Max(1000, before.emotionalResonance)
      [] OTHER -> FALSE

\* C25: a save one hour or more after the last pass applies a decay pass: to
\* every entity the graph keeps, the one rule of its importancePattern
\* (self-managed: trust and resonance unchanged); lastUpdated of every entity of
\* the saved graph, self-managed and new ones included, is the time of the pass,
\* and so is the decay timestamp of the manager; pattern and flags stay.
DecayPassAppliesOneRule ==
    [][(clock - lastDecayCheck >= HOUR /\ store' # store)
       => /\ lastDecayCheck' = clock
          /\ \A before \in {Followed} :
             \A after \in {Graph'.entities} :
                /\ \A i \in 1..Len(after) : after[i].emotionalMetadata.lastUpdated = clock
                /\ \A i \in 1..Len(before) :
                      /\ after[i].name = before[i].name
                      /\ RuleOfPattern(before[i].emotionalMetadata, after[i].emotionalMetadata)
                      /\ after[i].emotionalMetadata.importancePattern
                           = before[i].emotionalMetadata.importancePattern]_vars

\* C25, witness: a pass has been applied after the construction of the manager
\* to a graph with entities of the four patterns; the self-managed identity
\* entity has its trust 0.8 and resonance 0.95 and the lastUpdated of the pass,
\* as have the strengthened User_Profile and the time-based Sarah.
PassStampedEveryEntity ==
    /\ PassApplied
    /\ \E i, j, k, n \in 1..Len(Entities) :
          /\ Entities[i].emotionalMetadata.importancePattern = "self-managed"
          /\ Entities[i].emotionalMetadata.trustLevel = 8000
          /\ Entities[i].emotionalMetadata.emotionalResonance = 9500
          /\ Entities[j].emotionalMetadata.importancePattern = "strengthen"
          /\ Entities[j].emotionalMetadata.trustLevel = 6012
          /\ Entities[k].emotionalMetadata.importancePattern = "time-based"
          /\ Entities[n].emotionalMetadata.importancePattern = "preference"
    /\ \A i \in 1..Len(Entities) : Entities[i].emotionalMetadata.lastUpdated = clock

----------------------------------------------------------------------------
(* C26 *)

\* the time from the entity's lastUpdated to the pass of the step: the call
\* that adds observations to the entity has set its lastUpdated to now
SinceUpdate(entity) ==
    IF /\ last'.op = "addObservations"
       /\ \E k \in 1..Len(last'.result) : last'.result[k].entityName = entity.name
    THEN 0
    ELSE clock - entity.emotionalMetadata.lastUpdated

\* what a pass does to the time-based entities the graph keeps: P(r, r2, elapsed)
\* for the resonance before and after and the time since lastUpdated
TimeBasedUnderPass(P(_, _, _)) ==
    (clock - lastDecayCheck >= HOUR /\ store' # store)
    => \A before \in {Entities} :
       \A after \in {Graph'.entities} :
       \A i \in 1..Len(before) :
          (/\ before[i].emotionalMetadata.importancePattern = "time-based"
           /\ SinceUpdate(before[i]) >= 0)
          => P(before[i].emotionalMetadata.emotionalResonance,
               after[i].emotionalMetadata.emotionalResonance,
               SinceUpdate(before[i]))

\* C26, as claimed: under a pass a time-based resonance is multiplied by
\* 0.5^(hours/168), hours counted from the entity's lastUpdated: after exactly
\* 168 hours 0.5 becomes 0.25; the resonance never increases; the result is at
\* least 0.1.
TimeBasedNeverIncreases ==
    [][TimeBasedUnderPass(LAMBDA r, r2, elapsed :
          /\ r2 >= 1000
          /\ r2 <= r
          /\ (elapsed = WEEK /\ r = 5000) => r2 = 2500)]_vars

\* C26, amended: under a pass a time-based resonance r becomes
\* max(0.1, r * 0.5^(hours/168)), hours counted from the entity's lastUpdated:
\* after exactly 168 hours r is halved (0.5 becomes 0.25), after no time it is
\* unchanged, within the first week it is between r/2 and r, in each case
\* raised to 0.1 when that is less than 0.1.  So the result is at least 0.1 and
\* a resonance of 0.1 or more never increases, while a resonance below 0.1 is
\* raised to 0.1.
TimeBasedDecaysToFloor ==
    [][TimeBasedUnderPass(LAMBDA r, r2, elapsed :
          /\ r2 >= 1000
          /\ r2 <= Max(1000, r)
          /\ r < 1000 => r2 = 1000
          /\ elapsed = 0 => r2 = Max(1000, r)
          /\ elapsed = WEEK => r2 = Max(1000, r \div 2)
          /\ (0 < elapsed /\ elapsed < WEEK /\ r >= 2000) => (r \div 2 < r2 /\ r2 < r))]_vars

\* C26, witness: Sarah (time-based, resonance 0.5, lastUpdated at the
\* construction) has gone through a pass exactly one week later and has
\* resonance 0.25 and the lastUpdated of the pass.
HalvedAfterOneWeek ==
    /\ clock = WEEK
    /\ lastDecayCheck = WEEK
    /\ \E i \in 1..Len(Entities) :
          /\ Entities[i].name = "Sarah"
          /\ Entities[i].emotionalMetadata.importancePattern = "time-based"
          /\ Entities[i].emotionalMetadata.createdAt = 0
          /\ Entities[i].emotionalMetadata.emotionalResonance = 2500
          /\ Entities[i].emotionalMetadata.lastUpdated = WEEK

----------------------------------------------------------------------------
(* C27 *)

\* the stored relations whose from and to are both names of these entities
Between(relations, entities) ==
    SelectSeq(relations,
              LAMBDA r : /\ \E i \in 1..Len(entities) : entities[i].name = r.from
                         /\ \E i \in 1..Len(entities) : entities[i].name = r.to)

\* C27: the relations searchNodes and openNodes return are exactly the stored
\* relations whose from and to are both names of returned entities, in store
\* order: none with an end outside the returned entities, none omitted.
ReturnedRelationsAreInduced ==
    last.op \in {"searchNodes", "openNodes"}
    => last.relations = Between(Relations, last.result)

\* C27, witness: the search for "zsh" has returned Dave and the bootstrap
\* entities but not Blank (score 0), with the bootstrap relation and the
\* relation from Dave to User_Profile, without the stored relation from Dave to
\* Blank.
RelationToUnreturnedEntityLeftOut ==
    /\ last.op = "searchNodes"
    /\ HasName(Entities, "Blank")
    /\ ~HasName(last.result, "Blank")
    /\ HasTriple(Relations, DaveKnowsBlank)
    /\ last.relations = << BootstrapRelation, DaveAsksProfile >>

----------------------------------------------------------------------------
(* C28 *)

\* what openNodes(names) returns and leaves, T(before, t) being the trust an
\* entity has afterwards: the entities named are returned, they and no others
\* have lastAccessed at the time of the call, in the result and in the store,
\* and name, observations and pattern of every entity are as before
OpenNodesStamps(T(_, _)) ==
    \A names \in QueriedNames :
       (last'.op = "openNodes" /\ OpenNodes(names))
       => \A before \in {Entities} :
          \A after \in {Graph'.entities} :
             /\ Len(after) = Len(before)
             /\ Names(last'.result)
                  = Names(SelectSeq(before, LAMBDA e : Contains(names, e.name)))
             /\ last'.result = SelectSeq(after, LAMBDA e : Contains(names, e.name))
             /\ \A i \in 1..Len(before) :
                   /\ after[i].name = before[i].name
                   /\ after[i].observations = before[i].observations
                   /\ after[i].emotionalMetadata.importancePattern
                        = before[i].emotionalMetadata.importancePattern
                   /\ after[i].emotionalMetadata.lastAccessed
                        = IF Contains(names, before[i].name) THEN clock
                          ELSE before[i].emotionalMetadata.lastAccessed
                   /\ after[i].emotionalMetadata.trustLevel
                        = T(before[i].emotionalMetadata, clock - lastDecayCheck)

\* C28, as claimed: openNodes(names) returns exactly the entities named, sets
\* lastAccessed on exactly those and persists it, and leaves the observations,
\* the trust and the pattern of every entity unchanged.
OpenNodesOnlyStamps ==
    [][OpenNodesStamps(LAMBDA metadata, sinceCheck : metadata.trustLevel)]_vars

\* C28, amended: as claimed, but the trust is left unchanged by openNodes
\* itself only: the save that persists the stamp applies its decay pass when
\* one is due, and then the trust of every strengthen entity is multiplied by
\* 1.002 (capped at 1.0), in the store and in the entities returned.
OpenNodesStampsThenDecayPass ==
    [][OpenNodesStamps(LAMBDA metadata, sinceCheck :
          IF sinceCheck >= HOUR /\ metadata.importancePattern = "strengthen"
          THEN Min(SCALE, (metadata.trustLevel * 1002) \div 1000)
          ELSE metadata.trustLevel)]_vars

\* C28, witness: openNodes(["Dave", "User_Profile"]) on the bootstrap graph, in
\* a save that applied a pass: User_Profile is returned with the lastAccessed of
\* the call and trust 0.6012, and the identity entity has no lastAccessed.
OpenedAndStamped ==
    /\ last.op = "openNodes"
    /\ PassApplied
    /\ Names(last.result) = << "User_Profile" >>
    /\ last.result[1].emotionalMetadata.lastAccessed = clock
    /\ last.result[1].emotionalMetadata.trustLevel = 6012
    /\ Entities[1].name = "AI_Assistant_Identity"
    /\ Entities[1].emotionalMetadata.lastAccessed = NoTime
    /\ Entities[2] = last.result[1]

----------------------------------------------------------------------------
(* C29 *)

ReadingCalls == {"readGraph", "searchNodes", "getUserProfile"}

SavingCalls ==
    {"createEntities", "addObservations", "deleteObservations", "deleteEntities",
     "createRelations", "deleteRelations", "openNodes"}

Counter == Graph.metadata.totalInteractions

\* C29: readGraph, searchNodes and getUserProfile write nothing: the store (and
\* with it entities, relations, profile and interaction counter) and the decay
\* timestamp are as before; every call that saves changes the store, nothing
\* else does, and each change of the store advances the interaction counter by
\* exactly one; so the counter, which is read from the store, never decreases.
ReadsWriteNothingSavesCount ==
    [][/\ last'.op \in ReadingCalls
          => /\ store' = store
             /\ lastDecayCheck' = lastDecayCheck
             /\ bootstrap' = bootstrap
       /\ (last'.op \in SavingCalls /\ last'.error = "none" /\ clock' = clock)
          => store' # store
       /\ store' # store
          => /\ last'.op \in SavingCalls
             /\ \A before \in {Counter} : \A after \in {Counter'} : after = before + 1]_vars

\* C29, witness: after two calls that saved (createEntities among them: the
\* profile says zsh) getUserProfile has returned the profile, and the counter
\* of the store is two.
ProfileReadAfterTwoSaves ==
    /\ last.op = "getUserProfile"
    /\ last.profile.preferredShell = "zsh"
    /\ store.exists
    /\ Counter = 2

----------------------------------------------------------------------------
(* C30 *)

\* the strings that the elements of the batch that name this entity list
Listed(deletions, name) ==
    UNION { {deletions[k].observations[n] : n \in 1..Len(deletions[k].observations)} :
            k \in {j \in 1..Len(deletions) : deletions[j].entityName = name} }

\* what deleteObservations does, S(metadata, sinceCheck) being the trust and
\* resonance an entity it names has afterwards: of every entity the listed
\* strings are gone and the others stay in their order, lastAccessed stays, and
\* an entity the batch names has lastUpdated at the time of the call
DeleteObservationsRemoves(S(_, _)) ==
    \A deletions \in DeletionBatches :
       (last'.op = "deleteObservations" /\ DeleteObservations(deletions))
       => \A before \in {Entities} :
          \A after \in {Graph'.entities} :
             /\ Len(after) = Len(before)
             /\ \A i \in 1..Len(before) :
                   /\ after[i].name = before[i].name
                   /\ after[i].observations
                        = SelectSeq(before[i].observations,
                                    LAMBDA o : o \notin Listed(deletions, before[i].name))
                   /\ after[i].emotionalMetadata.lastAccessed
                        = before[i].emotionalMetadata.lastAccessed
                   /\ (\E k \in 1..Len(deletions) : deletions[k].entityName = before[i].name)
                      => /\ after[i].emotionalMetadata.lastUpdated = clock
                         /\ << after[i].emotionalMetadata.trustLevel,
                               after[i].emotionalMetadata.emotionalResonance >>
                              = S(before[i].emotionalMetadata, clock - lastDecayCheck)

\* C30, as claimed: deleteObservations removes from each named entity exactly
\* the listed strings, keeps the others in their order, advances lastUpdated and
\* leaves trust, resonance and lastAccessed unchanged.
DeleteObservationsKeepsScores ==
    [][DeleteObservationsRemoves(LAMBDA metadata, sinceCheck :
          << metadata.trustLevel, metadata.emotionalResonance >>)]_vars

\* C30, amended: as claimed for the strings, lastUpdated and lastAccessed;
\* trust and resonance are left unchanged by deleteObservations itself, and the
\* save applies its decay pass when one is due: strengthen multiplies trust by
\* 1.002 and resonance by 1.001, preference multiplies resonance by 1.001 (each
\* capped at 1.0), time-based leaves a named entity's resonance (no time has
\* passed since its lastUpdated) unless it is below 0.1, self-managed changes
\* nothing.
DeleteObservationsThenDecayPass ==
    [][DeleteObservationsRemoves(LAMBDA metadata, sinceCheck :
          LET trust == metadata.trustLevel
              resonance == metadata.emotionalResonance
              grown == Min(SCALE, (resonance * 1001) \div 1000)
          IN  IF sinceCheck < HOUR THEN << trust, resonance >>
              ELSE CASE metadata.importancePattern = "strengthen" ->
                          << Min(SCALE, (trust * 1002) \div 1000), grown >>
                     [] metadata.importancePattern = "preference" -> << trust, grown >>
                     [] metadata.importancePattern = "time-based" ->
                          << trust, Max(1000, resonance) >>
                     [] OTHER -> << trust, resonance >>)]_vars

\* C30, witness: deleteObservations has removed the first bootstrap observation
\* of User_Profile in a save that applied a pass: the second observation is
\* left, lastUpdated is the time of the call, trust is 0.6012 and resonance 0.8008.
ObservationDeletedAndStrengthened ==
    /\ last.op = "deleteObservations"
    /\ PassApplied
    /\ \E i \in 1..Len(Entities) :
          /\ Entities[i].name = "User_Profile"
          /\ Entities[i].observations
               = << "Will adapt based on observed patterns and explicit feedback" >>
          /\ Entities[i].emotionalMetadata.lastUpdated = clock
          /\ Entities[i].emotionalMetadata.trustLevel = 6012
          /\ Entities[i].emotionalMetadata.emotionalResonance = 8008

----------------------------------------------------------------------------
(* C31 *)

Classification(entity) ==
    [ isUserPreference |-> entity.emotionalMetadata.isUserPreference,
      accessibilityFlag |-> entity.emotionalMetadata.accessibilityFlag,
      importancePattern |-> entity.emotionalMetadata.importancePattern ]

\* C31: the classification of an entity is fixed at creation: no step changes
\* isUserPreference, accessibilityFlag or importancePattern of an entity the
\* graph holds, whatever keywords the observations added to it contain and
\* whichever decay passes are applied.
ClassificationFixedAtCreation ==
    [][\A before \in {Entities} :
       \A after \in {Graph'.entities} :
       \A i \in 1..Len(before) :
          /\ after[i].name = before[i].name
          /\ Classification(after[i]) = Classification(before[i])]_vars

\* C31, witness: Memo, created as a plain time-based note, has been given
\* observations with a preference keyword and an accessibility keyword, and is
\* still time-based with neither flag.
KeywordsAddedLaterChangeNothing ==
    /\ last.op = "addObservations"
    /\ \E i \in 1..Len(Entities) :
          /\ Entities[i].name = "Memo"
          /\ Contains(Entities[i].observations, "uses bash not fish")
          /\ Contains(Entities[i].observations, "uses screen reader")
          /\ isUserPreference(Entities[i])
          /\ isAccessibilityRelated(Entities[i])
          /\ Classification(Entities[i])
               = [ isUserPreference |-> FALSE, accessibilityFlag |-> FALSE,
                   importancePattern |-> "time-based" ]

----------------------------------------------------------------------------
(* C32 *)

Inferred == [ preferredShell |-> Profile.preferredShell,
              accessibilityNeeds |-> Profile.accessibilityNeeds,
              communicationPrefs |-> Profile.communicationPrefs ]

\* what the content of one entity alone puts into an empty profile
Mentioned(entity) ==
    ProfileAfterEntity([ preferredShell |-> "unknown", accessibilityNeeds |-> <<>>,
                         communicationPrefs |-> <<>> ], entity)

\* the candidates of a batch whose name the graph does not hold yet
Insertable(entities) ==
    {k \in 1..Len(entities) : \A i \in 1..Len(Entities) : Entities[i].name # entities[k].name}

\* C32: preferredShell, accessibilityNeeds and communicationPrefs change only
\* in createEntities, and only through a candidate whose name the graph did not
\* hold: a new shell or a new tag is one that such a candidate's content
\* mentions; addObservations and deleteObservations leave the three fields as
\* they are, whatever keywords the observations contain.
InferenceOnlyOverInserted ==
    [][\A before \in {Inferred} :
       \A after \in {Inferred'} :
          /\ last'.op # "createEntities" => after = before
          /\ \A entities \in TouchedCandidates :
                (last'.op = "createEntities" /\ CreateEntities(entities))
                => /\ after.preferredShell # before.preferredShell
                      => \E k \in Insertable(entities) :
                            Mentioned(entities[k]).preferredShell = after.preferredShell
                   /\ \A i \in 1..Len(after.accessibilityNeeds) :
                         Contains(before.accessibilityNeeds, after.accessibilityNeeds[i])
                         \/ \E k \in Insertable(entities) :
                               Contains(Mentioned(entities[k]).accessibilityNeeds,
                                        after.accessibilityNeeds[i])
                   /\ \A i \in 1..Len(after.communicationPrefs) :
                         Contains(before.communicationPrefs, after.communicationPrefs[i])
                         \/ \E k \in Insertable(entities) :
                               Contains(Mentioned(entities[k]).communicationPrefs,
                                        after.communicationPrefs[i])]_vars

\* C32, witness: the candidate named User_Profile with the observation "brief"
\* was dropped, Memo was inserted and then given observations that name a
\* shell, a screen reader and brevity, and the profile has inferred nothing.
DroppedAndLaterKeywordsInferNothing ==
    /\ last.op = "addObservations"
    /\ last.error = "none"
    /\ \E i \in 1..Len(Entities) :
          /\ Entities[i].name = "Memo"
          /\ Mentioned(Entities[i])
               = [ preferredShell |-> "bash", accessibilityNeeds |-> << "screen-reader" >>,
                   communicationPrefs |-> << "concise" >> ]
    /\ \A i \in 1..Len(Entities) :
          Entities[i].name = "User_Profile" => Entities[i].entityType = "user_profile"
    /\ Inferred = [ preferredShell |-> "unknown", accessibilityNeeds |-> <<>>,
                    communicationPrefs |-> <<>> ]

----------------------------------------------------------------------------
(* C33 *)

\* the candidates that bring emotionalMetadata of their own
SuppliedNames == { Raw.name, Faint.name, Blank.name }

Returned(entity) == HasName(last.result, entity.name)

MetadataScore(entity) ==
    2 * entity.emotionalMetadata.emotionalResonance + 2 * entity.emotionalMetadata.trustLevel

\* C33, as claimed: the result of searchNodes contains all entities of the
\* graph, for every query.
SearchReturnsAllEntities ==
    last.op = "searchNodes" => \A i \in 1..Len(Entities) : Returned(Entities[i])

\* C33, amended: searchNodes returns every entity whose metadata gives
\* 2 resonance + 2 trust > 0, whether or not the query occurs in it; an entity
\* whose metadata is the default or the bootstrap metadata, decayed or not,
\* has trust >= 0.5 and resonance >= 0.1 and is returned for every query, so the
\* result holds all entities of a graph that holds no others; an entity created
\* with metadata of its own is returned exactly when its score is positive.
SearchReturnsPositiveMetadata ==
    last.op = "searchNodes"
    => /\ \A i \in 1..Len(Entities) :
             /\ MetadataScore(Entities[i]) > 0 => Returned(Entities[i])
             /\ Entities[i].name \notin SuppliedNames
                => /\ Entities[i].emotionalMetadata.trustLevel >= SCALE \div 2
                   /\ Entities[i].emotionalMetadata.emotionalResonance >= SCALE \div 10
                   /\ Returned(Entities[i])
             /\ Returned(Entities[i]) <=> ClaimedScore(Entities[i], last.query) > 0
       /\ (\A i \in 1..Len(Entities) : Entities[i].name \notin SuppliedNames)
          => Len(last.result) = Len(Entities)
       /\ Len(last.result) <= Len(Entities)

\* C33, witness: a search for "zsh", which occurs in no entity, has returned the
\* two bootstrap entities and Sarah, a week or more after construction, and
\* has left out Blank, whose trust and resonance are 0.
UnmatchedEntitiesReturnedButBlank ==
    /\ last.op = "searchNodes"
    /\ last.query = "zsh"
    /\ clock >= WEEK
    /\ Len(Entities) = 4
    /\ \A i \in 1..Len(Entities) : ~MatchesQuery(Entities[i], last.query)
    /\ [k \in 1..Len(last.result) |-> last.result[k].name]
         \in { << a, b, c >> : a, b, c \in {"AI_Assistant_Identity", "User_Profile", "Sarah"} }
    /\ \E i \in 1..Len(Entities) : Entities[i].name = "Blank" /\ ~Returned(Entities[i])

----------------------------------------------------------------------------
(* C34 *)

StampedAt(entities, t) ==
    \A i \in 1..Len(entities) : entities[i].emotionalMetadata.lastUpdated = t

\* C34: lastDecayCheck changes only in a save that applies a pass, and then to
\* the time of that save: a save less than an hour after it leaves it as it
\* is, and a save an hour or more after it applies a pass (every entity is
\* stamped with the time of the save), however many saves were skipped since.
DecayClockAdvancesOnlyWithPass ==
    [][\A after \in {Graph'.entities} :
          /\ lastDecayCheck' # lastDecayCheck
             => /\ store' # store
                /\ clock - lastDecayCheck >= HOUR
                /\ lastDecayCheck' = clock
          /\ (store' # store /\ clock - lastDecayCheck < HOUR)
             => lastDecayCheck' = lastDecayCheck
          /\ (store' # store /\ clock - lastDecayCheck >= HOUR)
             => /\ lastDecayCheck' = clock
                /\ StampedAt(after, clock)
          /\ lastDecayCheck' > 0
             => \A i \in 1..Len(after) :
                   after[i].emotionalMetadata.lastUpdated >= lastDecayCheck']_vars

\* C34, witness: the first save came half an hour after construction and was
\* skipped by the guard; the second came half an hour after the first, one hour
\* after construction, and applied a pass.
PassAfterSkippedSave ==
    /\ store.exists
    /\ Graph.metadata.totalInteractions = 2
    /\ clock = HOUR
    /\ lastDecayCheck = HOUR
    /\ \E i \in 1..Len(Entities) : Entities[i].emotionalMetadata.createdAt = 1
    /\ Entities # <<>>
    /\ StampedAt(Entities, HOUR)

----------------------------------------------------------------------------
(* C35 *)

BootstrapNames == << "AI_Assistant_Identity", "User_Profile" >>

\* C35: without a store every load gives the two bootstrap entities and the
\* bootstrap relation, and the reading calls return them and create no store;
\* the first save persists them together with the effect of its call (a
\* candidate named User_Profile is not inserted, an entity that deleteEntities
\* names is gone); once the store exists it stays, and a bootstrap name the
\* graph does not hold comes back only as an entity createEntities inserts.
BootstrapOnlyWithoutStore ==
    [][\A before \in {Graph} :
       \A after \in {Graph'} :
          /\ ~store.exists
             => /\ Names(before.entities) = BootstrapNames
                /\ before.relations = << BootstrapRelation >>
                /\ last.op = "readGraph"
                   => /\ Names(last.result) = BootstrapNames
                      /\ last.relations = << BootstrapRelation >>
                /\ last.op = "searchNodes"
                   => /\ Len(last.result) = 2
                      /\ \A k \in 1..2 : HasName(last.result, BootstrapNames[k])
                /\ last.op = "getUserProfile" => last.profile = DefaultUserProfile
          /\ last'.op \in ReadingCalls => store' = store
          /\ (~store.exists /\ store'.exists)
             => /\ last'.op \in SavingCalls
                /\ last'.op # "deleteEntities"
                   => /\ Names(SubSeq(after.entities, 1, 2)) = BootstrapNames
                      /\ after.entities[2].entityType = "user_profile"
                      /\ after.relations = << BootstrapRelation >>
                /\ last'.op = "createEntities"
                   => /\ ~HasName(last'.result, "User_Profile")
                      /\ Names(after.entities) = BootstrapNames \o Names(last'.result)
                /\ \A entityNames \in EmptiedNames :
                      (last'.op = "deleteEntities" /\ DeleteEntities(entityNames))
                      => Names(after.entities)
                           = SelectSeq(BootstrapNames, LAMBDA n : ~Contains(entityNames, n))
          /\ store.exists
             => /\ store'.exists
                /\ \A k \in 1..Len(BootstrapNames) :
                      (~HasName(before.entities, BootstrapNames[k])
                       /\ HasName(after.entities, BootstrapNames[k]))
                      => /\ last'.op = "createEntities"
                         /\ HasName(last'.result, BootstrapNames[k])]_vars

\* C35, witness: the first save was the deleteEntities that names both
\* bootstrap entities; the store exists and holds no entity and no relation,
\* and readGraph has returned the empty graph.
EmptiedStoreStaysEmpty ==
    /\ store.exists
    /\ Graph.metadata.totalInteractions = 1
    /\ last.op = "readGraph"
    /\ last.result = <<>>
    /\ last.relations = <<>>
    /\ Entities = <<>>

----------------------------------------------------------------------------
(* C36 *)

\* the step is a call of addObservations or deleteObservations that has named
\* the entity and has saved
Touches(name) ==
    /\ store' # store
    /\ \/ /\ last'.op = "addObservations"
          /\ \E k \in 1..Len(last'.result) : last'.result[k].entityName = name
       \/ /\ last'.op = "deleteObservations"
          /\ \E deletions \in TouchedDeletions :
                /\ DeleteObservations(deletions)
                /\ \E k \in 1..Len(deletions) : deletions[k].entityName = name

\* what a save does to the time-based entities: one that the call has named
\* gets the time of the call as lastUpdated and R(r, r2) holds of its resonance
\* before and after; one that it has not named goes through the pass, when
\* one is due, with the time counted from its lastUpdated
TimeBasedWhenTouched(R(_, _)) ==
    store' # store
    => \A before \in {Entities} :
       \A after \in {Graph'.entities} :
       \A i \in 1..Len(before) :
          before[i].emotionalMetadata.importancePattern = "time-based"
          => LET r == before[i].emotionalMetadata.emotionalResonance
                 r2 == after[i].emotionalMetadata.emotionalResonance
                 elapsed == clock - before[i].emotionalMetadata.lastUpdated
             IN  IF Touches(before[i].name)
                 THEN /\ after[i].emotionalMetadata.lastUpdated = clock
                      /\ R(r, r2)
                 ELSE IF DecayDue(clock, lastDecayCheck)
                 THEN /\ after[i].emotionalMetadata.lastUpdated = clock
                      /\ elapsed = 0 => r2 = Max(1000, r)
                      /\ elapsed = WEEK => r2 = Max(1000, r \div 2)
                      /\ (0 < elapsed /\ elapsed < WEEK /\ r >= 2000)
                         => (r \div 2 < r2 /\ r2 < r)
                 ELSE after[i].emotionalMetadata = before[i].emotionalMetadata

\* C36, as claimed: a time-based entity that addObservations or
\* deleteObservations names gets the time of the call as lastUpdated before the
\* pass of the same save, and that pass leaves its resonance unchanged.
TouchedResonanceUnchanged ==
    [][TimeBasedWhenTouched(LAMBDA r, r2 : r2 = r)]_vars

\* C36, amended: a time-based entity that addObservations or deleteObservations
\* names gets the time of the call as lastUpdated before the pass of the same
\* save; the pass, when one is due, then finds no time elapsed and leaves the
\* resonance as it is when it is 0.1 or more, and raises it to 0.1 when it is
\* less; a pass counts the time from lastUpdated only, so the decay accrued
\* before the call is not applied by this pass nor by a later one.
TouchedResonanceKeptOrFloored ==
    [][TimeBasedWhenTouched(LAMBDA r, r2 :
          r2 = IF DecayDue(clock, lastDecayCheck) THEN Max(1000, r) ELSE r)]_vars

\* C36, witness: Sarah (time-based, resonance 0.5) was created at the
\* construction; one week later deleteObservations has removed her observation
\* in a save that applied a pass, and her resonance is still 0.5.
WeekOfDecayNotApplied ==
    /\ last.op = "deleteObservations"
    /\ clock = WEEK
    /\ lastDecayCheck = WEEK
    /\ \E i \in 1..Len(Entities) :
          /\ Entities[i].name = "Sarah"
          /\ Entities[i].observations = <<>>
          /\ Entities[i].emotionalMetadata.importancePattern = "time-based"
          /\ Entities[i].emotionalMetadata.createdAt = 0
          /\ Entities[i].emotionalMetadata.emotionalResonance = 5000
          /\ Entities[i].emotionalMetadata.lastUpdated = WEEK

----------------------------------------------------------------------------
(* C37 *)

\* C37, as claimed: an entity that createEntities has returned as inserted is
\* in the graph that readGraph returns from then on, with that name, type and
\* observations, whatever the strings are; checked of the load that follows
\* the call, before any other call.
InsertedEntitiesAreRead ==
    last.op = "createEntities"
    => \A k \in 1..Len(last.result) :
          \E i \in 1..Len(Entities) :
             /\ Entities[i].name = last.result[k].name
             /\ Entities[i].entityType = last.result[k].entityType
             /\ Entities[i].observations = last.result[k].observations

====
